---- MODULE Spec2Model ----
(***************************************************************************)
(* Room synchronisation engine of SyncBit_Backend.                         *)
(*                                                                         *)
(* The repository holds several generations of the RoomManager.  This      *)
(* module models                                                           *)
(*   - the Redis-backed RoomManager with savedElapsedTime                  *)
(*     (src/unnamed/part_001, lines 241-600): specifications Spec and      *)
(*     SpecPlay;                                                           *)
(*   - the earlier Redis-backed RoomManager (src/unnamed/part_000) under   *)
(*     the socket handlers that drive it (src/src/sockets/                 *)
(*     socketHandlers.js, lines 1-195): specification SpecV0, and          *)
(*     SpecSession for create-room, join-room, leave-room and disconnect;  *)
(*   - the RoomManager with a song library (src/unnamed/part_002, lines    *)
(*     508-1130) under the handlers of src/src/controllers/                *)
(*     socketHandlers.js: specification SpecSong;                          *)
(*   - the RoomManager with HLS streams (src/unnamed/part_002, lines       *)
(*     1-506): specification SpecHLS;                                      *)
(*   - _calculateGain of the three generations, on its own:                *)
(*     specification SpecGain;                                             *)
(*   - the TimeManager (src/unnamed/part_003) and the ntp-request and      *)
(*     resync-request handlers (src/src/sockets/socketHandlers.js, lines   *)
(*     173-194): specification SpecTime;                                   *)
(*   - uploadSong, removeSong and removeClient of the RoomManager with a   *)
(*     song library, with the HLS directories of the songs (hlsOutputDir): *)
(*     specification SpecTeardown;                                         *)
(*   - the playback clock of the RoomManager with a song library, with     *)
(*     the clock moving past the buffers and the song length:              *)
(*     specification SpecSongTime;                                         *)
(*   - parseM3U8Segments, getAudioDuration and getSegmentForTime of the    *)
(*     RoomManager with HLS streams, over playlists: SpecSegments;         *)
(*   - the interval callback of src/unnamed/part_000 over a full turn of   *)
(*     the source: specification SpecLoopV0;                               *)
(*   - toggleSpatialAudio and the interval callback of the RoomManager     *)
(*     with a song library: specification SpecSpatialSong;                 *)
(*   - the leave-room and disconnect handlers over removeClient of         *)
(*     src/unnamed/part_001, with a fair event loop: specification         *)
(*     SpecLeave.                                                          *)
(*                                                                         *)
(* Geometry.  A client position is the slot it holds, Slot(i, N); angles   *)
(* are counted in steps of 6 degrees, lengths in 1/100 and gains in        *)
(* 1/1000, and distances come from a cosine table.                         *)
(*                                                                         *)
(* The event loop.  Every method of the RoomManager is async and the store *)
(* is one ioredis connection (src/unnamed/part_005, part_006).  A command  *)
(* is queued on the connection when it is issued (pipe) and the server     *)
(* runs the commands in that order, so a command takes effect in the store *)
(* when it is issued and a read returns the store of that moment.  The     *)
(* replies come back in the same order; the replies of one socket read are *)
(* resolved together (Receive) and the code waiting for them then runs as  *)
(* microtasks, first in first out (micro).  An await of a promise that is  *)
(* already settled, and the return of an async function to the caller that *)
(* awaits it, each put the rest of the code at the back of the microtask   *)
(* queue.  A socket event, a timer callback and a step of the clock start  *)
(* only when the microtask queue is empty.  So one action of the model is  *)
(* the code that runs in one microtask; a microtask that touches nothing   *)
(* the model keeps is a Hop.                                               *)
(*                                                                         *)
(* A connection has at most one call under way and a timer at most one     *)
(* callback.  The diagnostic timestamps createdAt, lastUpdated and         *)
(* joinedAt are left out of the room record: no code path reads them.      *)
(***************************************************************************)
EXTENDS Integers, Sequences, FiniteSets, TLC

\* ------------------------------------------------------------------ bounds
MaxTime == 2
MaxResume == 2
MaxDur == 1
MaxOps == 3
MaxPlayOps == 3
MaxV0Ops == 3
MaxTicks == 2
MaxTimers == 2
MaxSongOps == 3
MaxSessionOps == 3
MaxHlsOps == 3
MaxSegment == 1
MaxMembers == 6
MaxPeriods == 2
MaxSyncs == 3
MaxRequests == 1

\* ------------------------------------------------------- program constants
StepPeriod == 60
SaveEvery == 30
DEFAULT_SONG_DURATION == 180000
PlayBuffer == 2000
ResumeBuffer == 1000
OrbitRadius == 100
LayoutRadiusV0 == 50

\* RADIUS of ../constants/index.js
RADIUS == 100

\* TimeManager.syncInterval
syncInterval == 300000

\* ------------------------------------------------------------------ domains
Conns == {"c1", "c2"}
RoomIds == {"r1", "r2"}
PlayRoom == "r1"
Usernames == {"alice", "bob"}
TimerIds == 1..MaxTimers

\* a nullable number: <<>> is null / undefined, <<n>> is the number n
Null == <<>>
Some(n) == <<n>>
Truthy(v) == v # Null /\ v[1] # 0

ResumeInputs == {Null, Some(0), Some(MaxResume)}
DurInputs == {Null, Some(MaxDur)}

\* Date.now() is a Unix time: far larger than any playback position
Epoch == MaxResume + 1

\* serverTimeToExecute of a command: none, already past, still to come
ExecuteAtInputs == {Null, Some(Epoch), Some(Epoch + MaxTime + 1)}

Min(a, b) == IF a <= b THEN a ELSE b
Max(a, b) == IF a >= b THEN a ELSE b

\* ------------------------------------------------------------- room values
NoRoom == [absent |-> TRUE]
Origin == [orbit |-> FALSE, step |-> 0]
\* the point center + radius * (cos, sin)(step * PI / 30)
OrbitPoint(step) == [orbit |-> TRUE, step |-> step % StepPeriod]
\* the position of angle 2 * PI * index / n on the circle of radius RADIUS
Slot(index, n) == <<index, n>>

\* initRoom: the room it writes
initRoom ==
  [clients |-> <<>>,
   spatialEnabled |-> FALSE,
   songEnabled |-> FALSE,
   savedElapsedTime |-> 0,
   startTime |-> Null,
   songDuration |-> 0,
   listeningSource |-> Origin]

\* initRoom of part_000: no savedElapsedTime, songDuration null
initRoomV0 ==
  [clients |-> <<>>,
   spatialEnabled |-> FALSE,
   songEnabled |-> FALSE,
   listeningSource |-> Origin,
   startTime |-> Null,
   songDuration |-> Null]

ClientIds(room) == {room.clients[i].id : i \in 1..Len(room.clients)}
IdSeq(room) == [i \in 1..Len(room.clients) |-> room.clients[i].id]

VARIABLES
  store,       \* Redis: room id -> persisted room, or NoRoom
  sockets,     \* RoomManager.sockets: the client ids that have a socket registered
  intervals,   \* RoomManager.intervals: room id -> timer id, 0 when none
  timers,      \* the setInterval timers: timer id -> timer record
  proc,        \* per connection: the call in progress and its local variables
  pipe,        \* the commands issued on the connection and not yet answered
  micro,       \* the microtask queue
  now,         \* Date.now()
  ops,         \* number of calls that may still be started
  lastSpatial, \* per room: the last spatial-update that reached a socket
  writer,      \* history: per room, who issued the last store write
  tornDown,    \* history: per room, torn down and not re-created since
  spatialOff,  \* history: per room, spatial mode toggled off and not on since
  resumed,     \* history: per room, the last pause / resume of playback
  joined,      \* socket.rooms: per connection, the rooms its socket joined
  lastCommand, \* per room: the last play-audio / pause-audio broadcast
  inbox,       \* per connection: the events emitted to its socket
  hlsStreams,  \* RoomManager.hlsStreams: room id -> segment table, or none
  probe,       \* a pure function under test: its inputs and its results
  ntp,         \* the TimeManager and the time exchanges with the clients
  hlsOutputDir, \* public/hls: the song ids that have a directory of HLS files
  closed       \* the connections that have disconnected

vars == <<store, sockets, intervals, timers, proc, pipe, micro, now, ops,
          lastSpatial, writer, tornDown, spatialOff, resumed, joined,
          lastCommand, inbox, hlsStreams, probe, ntp, hlsOutputDir, closed>>

\* the state of the socket handlers
v0 == <<joined, lastCommand>>

hist == <<writer, tornDown, spatialOff, resumed>>

\* the state that only the later generations of the RoomManager use
ext == <<inbox, hlsStreams, probe, ntp, hlsOutputDir, closed>>

\* a connection that is not inside a call
Idle ==
  [pc |-> "idle", room |-> "r1", user |-> "alice", enable |-> FALSE,
   resume |-> Null, dur |-> Null, at |-> Null, loc |-> NoRoom,
   snap |-> NoRoom, first |-> FALSE, alone |-> FALSE, sent |-> FALSE,
   reads |-> 0, cmd |-> "none", song |-> Null]

NoTimer == [room |-> "r1", step |-> 0, live |-> FALSE, pc |-> "free",
            cur |-> NoRoom, count |-> 0]

NoPayload == [none |-> TRUE]
NoCommand == [none |-> TRUE]
NoResume == [phase |-> "none", e |-> 0, at |-> 0]
NoStream == [none |-> TRUE]
NoProbe == [none |-> TRUE]
NoNtp == [none |-> TRUE]

\* who waits for a reply or a microtask: a call of a connection, a callback
Op(p) == [conn |-> p]
Cb(t) == [timer |-> t]

\* ---------------------------------------------------------- pure functions

\* _getElapsedTime with the cap at songDuration left out (a faulty variant,
\* which C3 must tell from the code)
getElapsedTimeUncapped(room, t) ==
  IF room.songEnabled /\ Truthy(room.startTime)
  THEN t - room.startTime[1]
  ELSE room.savedElapsedTime

\* _getElapsedTime / _getElapsedTimeSync, at clock value t
getElapsedTime(room, t) ==
  IF room.songEnabled /\ Truthy(room.startTime)
  THEN Min(t - room.startTime[1], room.songDuration)
  ELSE room.savedElapsedTime

\* _getElapsedTime of part_000, at clock value t
getElapsedTimeV0(room, t) ==
  IF ~room.songEnabled \/ ~Truthy(room.startTime) THEN 0
  ELSE Min(t - room.startTime[1],
           IF Truthy(room.songDuration) THEN room.songDuration[1] ELSE 0)

\* updateClientPositions that places only the entries still at (0, 0) (a
\* faulty variant, which C20 must tell from the code)
updateClientPositionsNew(room) ==
  [room EXCEPT !.clients =
     [i \in 1..Len(room.clients) |->
        IF room.clients[i].pos = Slot(0, 0)
        THEN [room.clients[i] EXCEPT !.pos = Slot(i - 1, Len(room.clients))]
        ELSE room.clients[i]]]

\* updateClientPositions
updateClientPositions(room) ==
  [room EXCEPT !.clients =
     [i \in 1..Len(room.clients) |->
        [room.clients[i] EXCEPT !.pos = Slot(i - 1, Len(room.clients))]]]

\* addClient with the eviction loop left out (a faulty variant, which C7
\* must tell from the code)
KeepEveryone(clients, username) == clients

\* the eviction loop of addClient: the members that keep their entry
KeepOthers(clients, username) ==
  SelectSeq(clients, LAMBDA c : c.username # username)

\* the eviction loop of addClient: the ids whose entry and socket are deleted
Evicted(clients, username) ==
  {clients[i].id : i \in {j \in 1..Len(clients) : clients[j].username = username}}

\* room.clients[clientId] = {...}: an existing key keeps its place
PutClient(clients, clientId, username) ==
  LET entry == [id |-> clientId, username |-> username, pos |-> Slot(0, 0)]
  IN IF \E i \in 1..Len(clients) : clients[i].id = clientId
     THEN [i \in 1..Len(clients) |->
             IF clients[i].id = clientId THEN entry ELSE clients[i]]
     ELSE Append(clients, entry)

\* delete room.clients[clientId]
DropClient(clients, clientId) ==
  SelectSeq(clients, LAMBDA c : c.id # clientId)

\* addClient on the room object: evict the username, add the caller, lay out
addClientBody(room, clientId, username) ==
  updateClientPositions(
    [room EXCEPT !.clients =
       PutClient(KeepOthers(room.clients, username), clientId, username)])

\* playAudio that always resumes from savedElapsedTime (a faulty variant,
\* which C27 must tell from the code)
playAudioBodyNoSeek(room, enable, elapsedTime, songDuration, t) ==
  LET r1 == [room EXCEPT !.songEnabled = enable,
                         !.songDuration =
                            IF Truthy(songDuration) THEN songDuration[1] ELSE @]
  IN IF enable
     THEN [r1 EXCEPT !.startTime = Some(t - r1.savedElapsedTime),
                     !.savedElapsedTime = 0]
     ELSE [r1 EXCEPT !.savedElapsedTime = getElapsedTime(r1, t),
                     !.startTime = Null]

\* lines 359-370 of playAudio on the room object, at clock value t
playAudioBody(room, enable, elapsedTime, songDuration, t) ==
  LET r1 == [room EXCEPT !.songEnabled = enable,
                         !.songDuration =
                            IF Truthy(songDuration) THEN songDuration[1] ELSE @]
  IN IF enable
     THEN LET resumeFrom == IF elapsedTime # Null THEN elapsedTime[1]
                            ELSE r1.savedElapsedTime
          IN [r1 EXCEPT !.startTime = Some(t - resumeFrom),
                        !.savedElapsedTime = 0]
     ELSE [r1 EXCEPT !.savedElapsedTime = getElapsedTime(r1, t),
                     !.startTime = Null]

\* lines 382-385 of pauseAudio on the room object, at clock value t
pauseAudioBody(room, t) ==
  LET r1 == [room EXCEPT !.songEnabled = FALSE]
  IN [r1 EXCEPT !.savedElapsedTime = getElapsedTime(r1, t),
                !.startTime = Null]

\* playAudio of part_000 on the room object, at clock value t
playAudioBodyV0(room, enable, duration, t) ==
  [room EXCEPT
     !.songEnabled = enable,
     !.songDuration =
        IF duration # Null /\ duration[1] > 0 THEN duration
        ELSE IF Truthy(@) THEN @ ELSE Some(DEFAULT_SONG_DURATION),
     !.startTime = IF enable THEN Some(t) ELSE Null]

\* pauseAudio of part_000 on the room object
pauseAudioBodyV0(room) == [room EXCEPT !.songEnabled = FALSE]

\* the play-audio handler: duration, else the room's, else the default
fallbackDuration(room, duration) ==
  IF duration # Null /\ duration[1] > 0 THEN duration
  ELSE IF room # NoRoom /\ Truthy(room.songDuration) THEN room.songDuration
  ELSE Some(DEFAULT_SONG_DURATION)

\* ---------------------------------------------------------------- geometry
\* Angles are counted in steps of 6 degrees (PI / 30), lengths in 1/100 of a
\* unit and gains in 1/1000.

\* cos of 0, 6, ..., 90 degrees, in 1/10000
Cos6 == <<10000, 9945, 9781, 9511, 9135, 8660, 8090, 7431, 6691, 5878, 5000,
          4067, 3090, 2079, 1045, 0>>

\* Math.cos of k steps, in 1/10000
cos(k) ==
  LET a == k % 60
      b == IF a > 30 THEN 60 - a ELSE a
  IN IF b <= 15 THEN Cos6[b + 1] ELSE 0 - Cos6[(30 - b) + 1]

RECURSIVE SqrtIn(_, _, _)
SqrtIn(n, lo, hi) ==
  IF lo >= hi THEN lo
  ELSE LET mid == (lo + hi + 1) \div 2
       IN IF mid * mid <= n THEN SqrtIn(n, mid, hi) ELSE SqrtIn(n, lo, mid - 1)

\* Math.sqrt, rounded down
sqrt(n) == SqrtIn(n, 0, 40000)

\* the angle and the radius of a client position: Slot(i, n) lies at angle
\* 2 * PI * i / n on the circle of the layout radius, Slot(0, 0) is the
\* point (0, 0) that a new entry holds until the layout
SlotAngle(pos) == IF pos[2] = 0 THEN 0 ELSE (60 * pos[1]) \div pos[2]
SlotRadius(pos, radius) == IF pos[2] = 0 THEN 0 ELSE radius

\* _distance(client.position, source): the client on the circle of the
\* layout radius, the source at the origin or on the orbit of radius orbit
distance(pos, radius, source, orbit) ==
  LET rc == SlotRadius(pos, radius)
      rs == IF source.orbit THEN orbit ELSE 0
      delta == (SlotAngle(pos) + 60 - source.step) % 60
  IN sqrt((rc * rc + rs * rs) * 10000 - 2 * rc * rs * cos(delta))

\* _calculateGain with the floor left out (a faulty variant, which C19 must
\* tell from the code)
calculateGainNoFloor(dist, maxRadius) ==
  1000 - (dist * 1000) \div (100 * maxRadius)

\* _calculateGain with the quadratic curve and the floor 0.05 of the
\* in-memory RoomManager (a faulty variant, which C18 must tell from the code)
calculateGainQuadratic(dist, maxRadius) ==
  Max(50, 1000 - ((dist \div maxRadius) * (dist \div maxRadius)) \div 10)

\* _calculateGain of part_001 and of the HLS RoomManager, maxDistance = RADIUS
calculateGain(dist, maxRadius) ==
  LET maxDistance == 100 * maxRadius
      minGain == 100
      gain == 1000 - (dist * 1000) \div maxDistance
  IN IF dist >= maxDistance THEN minGain ELSE Max(gain, minGain)

\* _calculateGain of part_000: maxDistance = 100, quadratic
calculateGainV0(dist) ==
  LET minGain == 50
      gain == 1000 - (dist * dist) \div 100000
  IN Max(minGain, gain)

\* _calculateGain of the song RoomManager, maxDistance = RADIUS
calculateGainSong(dist, maxRadius) ==
  LET maxDistance == 100 * maxRadius
      minGain == 500
      gain == 1000 - (dist * (1000 - minGain)) \div maxDistance
  IN Max(gain, minGain)

\* the position of member id in the room object
PositionOf(room, id) ==
  room.clients[CHOOSE i \in 1..Len(room.clients) : room.clients[i].id = id].pos

\* the gains of broadcastSpatialUpdate and _sendCompleteStateToClient
gainsOf(room) ==
  [id \in ClientIds(room) |->
     IF room.spatialEnabled
     THEN calculateGain(distance(PositionOf(room, id), RADIUS,
                                 room.listeningSource, OrbitRadius), RADIUS)
     ELSE 1000]

\* the gains of broadcastSpatialUpdate of part_000
gainsOfV0(room) ==
  [id \in ClientIds(room) |->
     calculateGainV0(distance(PositionOf(room, id), LayoutRadiusV0,
                              room.listeningSource, LayoutRadiusV0))]

\* the spatial-update payload of a room object, and the sockets it goes to
SpatialPayload(room, to) ==
  [enabled |-> room.spatialEnabled,
   source |-> room.listeningSource,
   members |-> IdSeq(room),
   unity |-> ~room.spatialEnabled,
   gains |-> gainsOf(room),
   positions |-> [id \in ClientIds(room) |-> PositionOf(room, id)],
   to |-> to]

\* broadcastSpatialUpdate(room) for room id r: nothing is emitted when no
\* member of the room object has a socket registered
broadcastSpatialUpdate(ls, r, room, socks) ==
  IF ClientIds(room) \cap socks = {} THEN ls
  ELSE [ls EXCEPT ![r] = SpatialPayload(room, ClientIds(room) \cap socks)]

\* _sendCompleteStateToClient(socket, room): the spatial-update it emits
sendCompleteStateToClient(ls, r, room, clientId) ==
  [ls EXCEPT ![r] = SpatialPayload(room, {clientId})]

\* ------------------------------------------------------------------ timers

\* clearInterval(id): no further callback fires; a callback already running
\* runs to its end
clearInterval(tm, id) ==
  IF id = 0 THEN tm
  ELSE [tm EXCEPT ![id] =
          IF @.pc = "idle" THEN NoTimer ELSE [@ EXCEPT !.live = FALSE]]

\* the end of one callback of timer id: step is the closure's next step
EndCallback(tm, id, step) ==
  [tm EXCEPT ![id] =
     IF @.live THEN [@ EXCEPT !.pc = "idle", !.step = step, !.cur = NoRoom]
     ELSE NoTimer]

\* ------------------------------------------------------------ the event loop

\* the event loop is between two callbacks: no microtask is queued
Turn == micro = <<>>

\* a socket event or timer callback of o runs up to its first redis command;
\* h microtasks of wrappers lie between the reply and the code of o
Submit(o, h) ==
  /\ Turn
  /\ pipe' = Append(pipe, [who |-> o, hops |-> h])
  /\ UNCHANGED micro

\* the microtask at the head of the queue is the code of o
Running(o) == micro # <<>> /\ Head(micro) = [who |-> o, hops |-> 0]

\* the microtask ends by issuing a redis command
Request(o, h) ==
  /\ pipe' = Append(pipe, [who |-> o, hops |-> h])
  /\ micro' = Tail(micro)

\* the microtask ends at an await of a settled promise
Yield(o, h) ==
  /\ micro' = Append(Tail(micro), [who |-> o, hops |-> h])
  /\ UNCHANGED pipe

\* the microtask ends the call or the callback
Finish ==
  /\ micro' = Tail(micro)
  /\ UNCHANGED pipe

\* no call on room r is under way, except possibly by connection p
Quiet(r, p) ==
  \A q \in Conns \ {p} : proc[q].pc = "idle" \/ proc[q].room # r

\* -------------------------------------------------------------------- Init
\* the directories that uploadSong made for the songs of the rooms
SongDirs(rooms) ==
  UNION {IF "songs" \in DOMAIN rooms[r] THEN rooms[r].songs ELSE {} :
           r \in RoomIds}

InitWith(budget, rooms) ==
  /\ store = rooms
  /\ sockets = {}
  /\ intervals = [r \in RoomIds |-> 0]
  /\ timers = [t \in TimerIds |-> NoTimer]
  /\ proc = [p \in Conns |-> Idle]
  /\ pipe = <<>>
  /\ micro = <<>>
  /\ now = Epoch
  /\ ops = budget
  /\ lastSpatial = [r \in RoomIds |-> NoPayload]
  /\ writer = [r \in RoomIds |-> "none"]
  /\ tornDown = [r \in RoomIds |-> FALSE]
  /\ spatialOff = [r \in RoomIds |-> FALSE]
  /\ resumed = [r \in RoomIds |-> NoResume]
  /\ joined = [p \in Conns |-> <<>>]
  /\ lastCommand = [r \in RoomIds |-> NoCommand]
  /\ inbox = [p \in Conns |-> {}]
  /\ hlsStreams = [r \in RoomIds |-> NoStream]
  /\ probe = NoProbe
  /\ ntp = NoNtp
  /\ hlsOutputDir = SongDirs(rooms)
  /\ closed = {}

\* no room is persisted
NoRooms == [r \in RoomIds |-> NoRoom]

Init == InitWith(MaxOps, NoRooms)

\* connection p turns to room r: the calls under way on r are no longer alone
Enter(p, r, call) ==
  [q \in Conns |->
     IF q = p THEN call
     ELSE IF proc[q].pc # "idle" /\ proc[q].room = r
          THEN [proc[q] EXCEPT !.alone = FALSE]
          ELSE proc[q]]

\* a call of connection p on room r is received; its first redis command
\* reads the room
Call(p, pc0, r, u, en, e, d, at) ==
  /\ proc[p].pc = "idle"
  /\ ops > 0
  /\ ops' = ops - 1
  /\ proc' = Enter(p, r,
                [pc |-> pc0, room |-> r, user |-> u, enable |-> en,
                 resume |-> e, dur |-> d, at |-> at, loc |-> store[r],
                 snap |-> store[r], first |-> Quiet(r, p),
                 alone |-> Quiet(r, p), sent |-> FALSE, reads |-> 0,
                 cmd |-> "none", song |-> Null])

\* the same for the handler cmd, with the song id of its payload
CallAs(p, pc0, r, u, cmd, songId) ==
  /\ proc[p].pc = "idle"
  /\ ops > 0
  /\ ops' = ops - 1
  /\ proc' = Enter(p, r,
                [Idle EXCEPT !.pc = pc0, !.room = r, !.user = u, !.cmd = cmd,
                             !.song = songId, !.loc = store[r],
                             !.snap = store[r], !.first = Quiet(r, p),
                             !.alone = Quiet(r, p)])

Return(p) == proc' = [proc EXCEPT ![p] = Idle]

\* redis.set / redis.del on room r by who, with the history it leaves
Write(r, room, who, td, so, rs) ==
  /\ store' = [store EXCEPT ![r] = room]
  /\ writer' = [writer EXCEPT ![r] = who]
  /\ tornDown' = [tornDown EXCEPT ![r] = td]
  /\ spatialOff' = [spatialOff EXCEPT ![r] = so]
  /\ resumed' = [resumed EXCEPT ![r] = rs]
  /\ UNCHANGED ext

\* one read of the connection's socket: the next k replies are resolved
Receive(k) ==
  /\ Turn
  /\ k \in 1..Len(pipe)
  /\ micro' = SubSeq(pipe, 1, k)
  /\ pipe' = SubSeq(pipe, k + 1, Len(pipe))
  /\ UNCHANGED <<v0, store, sockets, intervals, timers, proc, now, ops,
                 lastSpatial, hist, ext>>

\* a microtask of a wrapper: getRoom, saveRoom or initRoom returns to the
\* code that awaits it, or code that touches no state runs up to an await
Hop ==
  /\ micro # <<>>
  /\ Head(micro).hops > 0
  /\ micro' = Append(Tail(micro), [Head(micro) EXCEPT !.hops = @ - 1])
  /\ UNCHANGED <<v0, store, sockets, intervals, timers, proc, pipe, now, ops,
                 lastSpatial, hist, ext>>

\* --------------------------------------------------------------- createRoom
\* createRoom: a candidate id is drawn and redis.exists is issued
createRoom(p, ids) ==
  /\ \E r \in ids : Call(p, "cr_checked", r, "alice", FALSE, Null, Null, Null)
  /\ Submit(Op(p), 0)
  /\ UNCHANGED <<v0, store, sockets, intervals, timers, now, lastSpatial, hist, ext>>

\* the id exists: the loop draws another candidate
createRoomRetry(p, ids) ==
  /\ Running(Op(p))
  /\ proc[p].pc = "cr_checked"
  /\ proc[p].loc # NoRoom
  /\ \E r \in ids :
       proc' = Enter(p, r, [proc[p] EXCEPT !.room = r, !.loc = store[r],
                                           !.snap = store[r],
                                           !.first = Quiet(r, p),
                                           !.alone = Quiet(r, p)])
  /\ Request(Op(p), 0)
  /\ UNCHANGED <<v0, store, sockets, intervals, timers, now, ops, lastSpatial, hist, ext>>

\* the id was reported absent: initRoom writes the initial room
createRoomInit(p) ==
  /\ Running(Op(p))
  /\ proc[p].pc = "cr_checked"
  /\ proc[p].loc = NoRoom
  /\ Write(proc[p].room, initRoom, p, FALSE, FALSE, NoResume)
  /\ proc' = [proc EXCEPT ![p].pc = "cr_inited", ![p].loc = initRoom]
  /\ Request(Op(p), 1)
  /\ UNCHANGED <<v0, sockets, intervals, timers, now, ops, lastSpatial>>

createRoomReturn(p) ==
  /\ Running(Op(p))
  /\ proc[p].pc = "cr_inited"
  /\ Return(p)
  /\ Finish
  /\ UNCHANGED <<v0, store, sockets, intervals, timers, now, ops, lastSpatial, hist, ext>>

\* ---------------------------------------------------------------- addClient
addClient(p, r, u) ==
  /\ Call(p, "add_got", r, u, FALSE, Null, Null, Null)
  /\ Submit(Op(p), 1)
  /\ UNCHANGED <<v0, store, sockets, intervals, timers, now, lastSpatial, hist, ext>>

\* addClient that goes on with the absent room it read and creates nothing
\* (a faulty variant, which C28 must tell from the code)
addClientInitNothing(p) ==
  /\ Running(Op(p))
  /\ proc[p].pc = "add_got"
  /\ proc[p].loc = NoRoom
  /\ proc' = [proc EXCEPT ![p].pc = "add_inited", ![p].loc = initRoom]
  /\ Yield(Op(p), 1)
  /\ UNCHANGED <<v0, store, sockets, intervals, timers, now, ops, lastSpatial,
                 hist, ext>>

\* the room was absent: initRoom
addClientInit(p) ==
  /\ Running(Op(p))
  /\ proc[p].pc = "add_got"
  /\ proc[p].loc = NoRoom
  /\ Write(proc[p].room, initRoom, p, FALSE, FALSE, NoResume)
  /\ proc' = [proc EXCEPT ![p].pc = "add_inited", ![p].loc = initRoom]
  /\ Request(Op(p), 1)
  /\ UNCHANGED <<v0, sockets, intervals, timers, now, ops, lastSpatial>>

\* evict the username, add the caller, register the socket, lay out
addClientJoin(p) ==
  /\ Running(Op(p))
  /\ \/ proc[p].pc = "add_got" /\ proc[p].loc # NoRoom
     \/ proc[p].pc = "add_inited"
  /\ sockets' = (sockets \ Evicted(proc[p].loc.clients, proc[p].user)) \cup {p}
  /\ proc' = [proc EXCEPT ![p].pc = "add_placed",
                          ![p].loc = addClientBody(@, p, proc[p].user)]
  /\ Yield(Op(p), 0)
  /\ UNCHANGED <<v0, store, intervals, timers, now, ops, lastSpatial, hist, ext>>

\* saveRoom writing only the membership and keeping the playback fields of
\* the persisted room (a faulty variant, which C10 must tell from the code)
addClientSaveMerging(p) ==
  LET r == proc[p].room
      merged == IF store[r] = NoRoom THEN proc[p].loc
                ELSE [store[r] EXCEPT !.clients = proc[p].loc.clients]
  IN /\ Running(Op(p))
     /\ proc[p].pc = "add_placed"
     /\ Write(r, merged, p, tornDown[r], spatialOff[r], NoResume)
     /\ proc' = [proc EXCEPT ![p].pc = "add_saved"]
     /\ Request(Op(p), 1)
     /\ UNCHANGED <<v0, sockets, intervals, timers, now, ops, lastSpatial>>

\* saveRoom
addClientSave(p) ==
  LET r == proc[p].room
  IN /\ Running(Op(p))
     /\ proc[p].pc = "add_placed"
     /\ Write(r, proc[p].loc, p, tornDown[r], spatialOff[r], NoResume)
     /\ proc' = [proc EXCEPT ![p].pc = "add_saved"]
     /\ Request(Op(p), 1)
     /\ UNCHANGED <<v0, sockets, intervals, timers, now, ops, lastSpatial>>

\* _sendCompleteStateToClient
addClientSync(p) ==
  /\ Running(Op(p))
  /\ proc[p].pc = "add_saved"
  /\ lastSpatial' = sendCompleteStateToClient(lastSpatial, proc[p].room,
                                              proc[p].loc, p)
  /\ proc' = [proc EXCEPT ![p].pc = "add_synced"]
  /\ Yield(Op(p), 1)
  /\ UNCHANGED <<v0, store, sockets, intervals, timers, now, ops, hist, ext>>

\* broadcastSpatialUpdate, after its await of _getElapsedTime
addClientBroadcast(p) ==
  /\ Running(Op(p))
  /\ proc[p].pc = "add_synced"
  /\ lastSpatial' = broadcastSpatialUpdate(lastSpatial, proc[p].room,
                                           proc[p].loc, sockets)
  /\ proc' = [proc EXCEPT ![p].pc = "add_done"]
  /\ Yield(Op(p), 0)
  /\ UNCHANGED <<v0, store, sockets, intervals, timers, now, ops, hist, ext>>

addClientReturn(p) ==
  /\ Running(Op(p))
  /\ proc[p].pc = "add_done"
  /\ Return(p)
  /\ Finish
  /\ UNCHANGED <<v0, store, sockets, intervals, timers, now, ops, lastSpatial, hist, ext>>

\* ------------------------------------------------------------- removeClient
removeClient(p, r) ==
  /\ Call(p, "rem_got", r, "alice", FALSE, Null, Null, Null)
  /\ Submit(Op(p), 1)
  /\ UNCHANGED <<v0, store, sockets, intervals, timers, now, lastSpatial, hist, ext>>

removeClientAbsent(p) ==
  /\ Running(Op(p))
  /\ proc[p].pc = "rem_got"
  /\ proc[p].loc = NoRoom
  /\ Return(p)
  /\ Finish
  /\ UNCHANGED <<v0, store, sockets, intervals, timers, now, ops, lastSpatial, hist, ext>>

\* the room is now empty: deleteRoom clears the timer and reads the room
removeClientLast(p) ==
  LET r == proc[p].room
  IN /\ Running(Op(p))
     /\ proc[p].pc = "rem_got"
     /\ proc[p].loc # NoRoom
     /\ DropClient(proc[p].loc.clients, p) = <<>>
     /\ sockets' = sockets \ {p}
     /\ timers' = clearInterval(timers, intervals[r])
     /\ intervals' = [intervals EXCEPT ![r] = 0]
     /\ proc' = [proc EXCEPT ![p].pc = "del_got", ![p].loc = store[r]]
     /\ Request(Op(p), 1)
     /\ UNCHANGED <<v0, store, now, ops, lastSpatial, hist, ext>>

\* deleteRoom after its getRoom: drop the members' sockets, redis.del
deleteRoom(p) ==
  LET room == proc[p].loc
      r == proc[p].room
      \* history: the caller was the last member and no other call ran
      last == proc[p].alone /\ ClientIds(proc[p].snap) = {p}
  IN /\ Running(Op(p))
     /\ proc[p].pc = "del_got"
     /\ sockets' = IF room = NoRoom THEN sockets ELSE sockets \ ClientIds(room)
     /\ Write(r, NoRoom, p, last, FALSE, NoResume)
     /\ lastSpatial' = IF last THEN [lastSpatial EXCEPT ![r] = NoPayload]
                       ELSE lastSpatial
     /\ proc' = [proc EXCEPT ![p].pc = "del_done", ![p].loc = NoRoom]
     /\ Request(Op(p), 1)
     /\ UNCHANGED <<v0, intervals, timers, now, ops>>

\* members remain: drop the caller and its socket, lay out again
removeClientLeave(p) ==
  LET left == DropClient(proc[p].loc.clients, p)
  IN /\ Running(Op(p))
     /\ proc[p].pc = "rem_got"
     /\ proc[p].loc # NoRoom
     /\ left # <<>>
     /\ sockets' = sockets \ {p}
     /\ proc' = [proc EXCEPT ![p].pc = "rem_placed",
                   ![p].loc = updateClientPositions([@ EXCEPT !.clients = left])]
     /\ Yield(Op(p), 0)
     /\ UNCHANGED <<v0, store, intervals, timers, now, ops, lastSpatial, hist, ext>>

\* saveRoom
removeClientSave(p) ==
  LET r == proc[p].room
  IN /\ Running(Op(p))
     /\ proc[p].pc = "rem_placed"
     /\ Write(r, proc[p].loc, p, tornDown[r], spatialOff[r], NoResume)
     /\ proc' = [proc EXCEPT ![p].pc = "rem_saved"]
     /\ Request(Op(p), 2)
     /\ UNCHANGED <<v0, sockets, intervals, timers, now, ops, lastSpatial>>

\* broadcastSpatialUpdate, after its await of _getElapsedTime
removeClientBroadcast(p) ==
  /\ Running(Op(p))
  /\ proc[p].pc = "rem_saved"
  /\ lastSpatial' = broadcastSpatialUpdate(lastSpatial, proc[p].room,
                                           proc[p].loc, sockets)
  /\ proc' = [proc EXCEPT ![p].pc = "rem_done"]
  /\ Yield(Op(p), 0)
  /\ UNCHANGED <<v0, store, sockets, intervals, timers, now, ops, hist, ext>>

removeClientReturn(p) ==
  /\ Running(Op(p))
  /\ proc[p].pc \in {"del_done", "rem_done"}
  /\ Return(p)
  /\ Finish
  /\ UNCHANGED <<v0, store, sockets, intervals, timers, now, ops, lastSpatial, hist, ext>>

\* ------------------------------------------------------ playAudio/pauseAudio
playAudio(p, r, en, e, d) ==
  /\ Call(p, "play_got", r, "alice", en, e, d, Null)
  /\ Submit(Op(p), 1)
  /\ UNCHANGED <<v0, store, sockets, intervals, timers, now, lastSpatial, hist, ext>>

pauseAudio(p, r) ==
  /\ Call(p, "pause_got", r, "alice", FALSE, Null, Null, Null)
  /\ Submit(Op(p), 1)
  /\ UNCHANGED <<v0, store, sockets, intervals, timers, now, lastSpatial, hist, ext>>

playAudioAbsent(p) ==
  /\ Running(Op(p))
  /\ proc[p].pc \in {"play_got", "pause_got"}
  /\ proc[p].loc = NoRoom
  /\ Return(p)
  /\ Finish
  /\ UNCHANGED <<v0, store, sockets, intervals, timers, now, ops, lastSpatial, hist, ext>>

\* playAudio(enable = false) up to its await of _getElapsedTime
playAudioStop(p) ==
  /\ Running(Op(p))
  /\ proc[p].pc = "play_got"
  /\ proc[p].loc # NoRoom
  /\ ~proc[p].enable
  /\ proc' = [proc EXCEPT ![p].pc = "play_stopped",
                ![p].loc = playAudioBody(@, FALSE, proc[p].resume,
                                         proc[p].dur, now)]
  /\ Yield(Op(p), 0)
  /\ UNCHANGED <<v0, store, sockets, intervals, timers, now, ops, lastSpatial, hist, ext>>

\* pauseAudio up to its await of _getElapsedTime
pauseAudioStop(p) ==
  /\ Running(Op(p))
  /\ proc[p].pc = "pause_got"
  /\ proc[p].loc # NoRoom
  /\ proc' = [proc EXCEPT ![p].pc = "pause_stopped",
                          ![p].loc = pauseAudioBody(@, now)]
  /\ Yield(Op(p), 0)
  /\ UNCHANGED <<v0, store, sockets, intervals, timers, now, ops, lastSpatial, hist, ext>>

\* history: a pause of a room that is Playing with elapsed e > 0
Paused(p) ==
  LET r == proc[p].room
      e == getElapsedTime(proc[p].snap, now)
  IN IF /\ proc[p].alone
        /\ store[r] = proc[p].snap
        /\ proc[p].snap.songEnabled
        /\ e > 0
     THEN [phase |-> "paused", e |-> e, at |-> now]
     ELSE NoResume

\* history: a play with no resume point right after such a pause
Resumed(p) ==
  LET r == proc[p].room
  IN IF /\ proc[p].alone
        /\ store[r] = proc[p].snap
        /\ proc[p].resume = Null
        /\ resumed[r].phase = "paused"
     THEN [phase |-> "resumed", e |-> resumed[r].e, at |-> now]
     ELSE NoResume

\* saveRoom of playAudio
playAudioSave(p) ==
  LET r == proc[p].room
      room == IF proc[p].enable
              THEN playAudioBody(proc[p].loc, TRUE, proc[p].resume,
                                 proc[p].dur, now)
              ELSE proc[p].loc
  IN /\ Running(Op(p))
     /\ \/ proc[p].pc = "play_got" /\ proc[p].loc # NoRoom /\ proc[p].enable
        \/ proc[p].pc = "play_stopped"
     /\ Write(r, room, p, tornDown[r], spatialOff[r],
              IF proc[p].enable THEN Resumed(p) ELSE Paused(p))
     /\ proc' = [proc EXCEPT ![p].pc = "play_saved", ![p].loc = room]
     /\ Request(Op(p), 3)
     /\ UNCHANGED <<v0, sockets, intervals, timers, now, ops, lastSpatial>>

\* saveRoom of pauseAudio
pauseAudioSave(p) ==
  LET r == proc[p].room
  IN /\ Running(Op(p))
     /\ proc[p].pc = "pause_stopped"
     /\ Write(r, proc[p].loc, p, tornDown[r], spatialOff[r], Paused(p))
     /\ proc' = [proc EXCEPT ![p].pc = "pause_saved"]
     /\ Request(Op(p), 3)
     /\ UNCHANGED <<v0, sockets, intervals, timers, now, ops, lastSpatial>>

\* broadcastCompleteState: the spatial-update of its broadcastSpatialUpdate
broadcastCompleteState(p) ==
  /\ Running(Op(p))
  /\ proc[p].pc \in {"play_saved", "pause_saved"}
  /\ lastSpatial' = broadcastSpatialUpdate(lastSpatial, proc[p].room,
                                           proc[p].loc, sockets)
  /\ proc' = [proc EXCEPT ![p].pc = IF @ = "play_saved" THEN "play_done"
                                    ELSE "pause_done"]
  /\ Yield(Op(p), 1)
  /\ UNCHANGED <<v0, store, sockets, intervals, timers, now, ops, hist, ext>>

playAudioReturn(p) ==
  /\ Running(Op(p))
  /\ proc[p].pc \in {"play_done", "pause_done"}
  /\ Return(p)
  /\ Finish
  /\ UNCHANGED <<v0, store, sockets, intervals, timers, now, ops, lastSpatial, hist, ext>>

\* ------------------------------------------------------- toggleSpatialAudio
toggleSpatialAudio(p, r, en) ==
  /\ Call(p, "tog_got", r, "alice", en, Null, Null, Null)
  /\ Submit(Op(p), 1)
  /\ UNCHANGED <<v0, store, sockets, intervals, timers, now, lastSpatial, hist, ext>>

toggleSpatialAudioAbsent(p) ==
  /\ Running(Op(p))
  /\ proc[p].pc = "tog_got"
  /\ proc[p].loc = NoRoom
  /\ Return(p)
  /\ Finish
  /\ UNCHANGED <<v0, store, sockets, intervals, timers, now, ops, lastSpatial, hist, ext>>

\* enable: clear the registered timer, then startSpatialAudio (setInterval,
\* intervals.set, saveRoom)
startSpatialAudio(p) ==
  LET r == proc[p].room
      room == [proc[p].loc EXCEPT !.spatialEnabled = TRUE]
      cleared == clearInterval(timers, intervals[r])
      free == {t \in TimerIds : cleared[t].pc = "free"}
  IN /\ Running(Op(p))
     /\ proc[p].pc = "tog_got"
     /\ proc[p].loc # NoRoom
     /\ proc[p].enable
     /\ free # {}
     /\ LET id == CHOOSE t \in free : \A u \in free : t <= u
        IN /\ timers' = [cleared EXCEPT ![id] =
                           [NoTimer EXCEPT !.room = r, !.live = TRUE,
                                           !.pc = "idle"]]
           /\ intervals' = [intervals EXCEPT ![r] = id]
     /\ Write(r, room, p, tornDown[r], FALSE, NoResume)
     /\ proc' = [proc EXCEPT ![p].pc = "tog_started", ![p].loc = room]
     /\ Request(Op(p), 2)
     /\ UNCHANGED <<v0, sockets, now, ops, lastSpatial>>

\* a toggle off that takes the missing scheduler for an error and returns
\* without a write (a faulty variant, which C21 must tell from the code)
stopSpatialAudioStrict(p) ==
  LET r == proc[p].room
  IN /\ Running(Op(p))
     /\ proc[p].pc = "tog_got"
     /\ proc[p].loc # NoRoom
     /\ ~proc[p].enable
     /\ IF intervals[r] = 0
        THEN /\ Return(p)
             /\ Finish
             /\ UNCHANGED <<v0, store, sockets, intervals, timers, now, ops,
                            lastSpatial, hist, ext>>
        ELSE /\ timers' = clearInterval(timers, intervals[r])
             /\ intervals' = [intervals EXCEPT ![r] = 0]
             /\ Write(r, [proc[p].loc EXCEPT !.spatialEnabled = FALSE,
                                            !.listeningSource = Origin],
                      p, tornDown[r], FALSE, NoResume)
             /\ proc' = [proc EXCEPT ![p].pc = "tog_saved",
                           ![p].loc = [@ EXCEPT !.spatialEnabled = FALSE,
                                                !.listeningSource = Origin]]
             /\ Request(Op(p), 2)
             /\ UNCHANGED <<v0, sockets, now, ops, lastSpatial>>

\* disable: clear the registered timer, source to the origin, saveRoom
stopSpatialAudio(p) ==
  LET r == proc[p].room
      room == [proc[p].loc EXCEPT !.spatialEnabled = FALSE,
                                  !.listeningSource = Origin]
  IN /\ Running(Op(p))
     /\ proc[p].pc = "tog_got"
     /\ proc[p].loc # NoRoom
     /\ ~proc[p].enable
     /\ timers' = clearInterval(timers, intervals[r])
     /\ intervals' = [intervals EXCEPT ![r] = 0]
     /\ Write(r, room, p, tornDown[r], FALSE, NoResume)
     /\ proc' = [proc EXCEPT ![p].pc = "tog_saved", ![p].loc = room]
     /\ Request(Op(p), 2)
     /\ UNCHANGED <<v0, sockets, now, ops, lastSpatial>>

\* the final broadcastSpatialUpdate of a toggle off
toggleSpatialAudioBroadcast(p) ==
  LET r == proc[p].room
  IN /\ Running(Op(p))
     /\ proc[p].pc = "tog_saved"
     /\ lastSpatial' = broadcastSpatialUpdate(lastSpatial, r, proc[p].loc, sockets)
     /\ proc' = [proc EXCEPT ![p].pc = "tog_done",
                             ![p].sent = ClientIds(proc[p].loc) \cap sockets # {}]
     /\ Yield(Op(p), 0)
     /\ UNCHANGED <<v0, store, sockets, intervals, timers, now, ops, hist, ext>>

\* toggleSpatialAudio returns.  History: a toggle off that ran alone and whose
\* final snapshot reached a member has completed
toggleSpatialAudioReturn(p) ==
  LET r == proc[p].room
  IN /\ Running(Op(p))
     /\ proc[p].pc \in {"tog_started", "tog_done"}
     /\ spatialOff' = [spatialOff EXCEPT ![r] =
                         /\ proc[p].pc = "tog_done"
                         /\ proc[p].alone
                         /\ proc[p].sent]
     /\ Return(p)
     /\ Finish
     /\ UNCHANGED <<v0, store, sockets, intervals, timers, now, ops,
                    lastSpatial, writer, tornDown, resumed, ext>>

\* ------------------------------------------- the setInterval callback (tick)
\* the timer fires: the callback issues getRoom
tick(t) ==
  /\ timers[t].live
  /\ timers[t].pc = "idle"
  /\ timers[t].count < MaxTicks
  /\ timers' = [timers EXCEPT ![t].pc = "got", ![t].cur = store[timers[t].room],
                              ![t].count = @ + 1]
  /\ Submit(Cb(t), 1)
  /\ UNCHANGED <<v0, store, sockets, intervals, proc, now, ops, lastSpatial, hist, ext>>

\* the room is gone or spatial mode is off: the callback clears its own timer
\* and deletes the room's entry of the intervals map
tickStop(t) ==
  /\ Running(Cb(t))
  /\ timers[t].pc = "got"
  /\ \/ timers[t].cur = NoRoom
     \/ timers[t].cur # NoRoom /\ ~timers[t].cur.spatialEnabled
  /\ timers' = [timers EXCEPT ![t] = NoTimer]
  /\ intervals' = [intervals EXCEPT ![timers[t].room] = 0]
  /\ Finish
  /\ UNCHANGED <<v0, store, sockets, proc, now, ops, lastSpatial, hist, ext>>

\* move the source; broadcastSpatialUpdate up to its await of _getElapsedTime
tickMove(t) ==
  /\ Running(Cb(t))
  /\ timers[t].pc = "got"
  /\ timers[t].cur # NoRoom
  /\ timers[t].cur.spatialEnabled
  /\ timers' = [timers EXCEPT ![t].pc = "moved",
                  ![t].cur = [@ EXCEPT !.listeningSource =
                                         OrbitPoint(timers[t].step)]]
  /\ Yield(Cb(t), 0)
  /\ UNCHANGED <<v0, store, sockets, intervals, proc, now, ops, lastSpatial, hist, ext>>

\* broadcastSpatialUpdate emits the snapshot
tickBroadcast(t) ==
  /\ Running(Cb(t))
  /\ timers[t].pc = "moved"
  /\ lastSpatial' = broadcastSpatialUpdate(lastSpatial, timers[t].room,
                                           timers[t].cur, sockets)
  /\ timers' = [timers EXCEPT ![t].pc = "sent"]
  /\ Yield(Cb(t), 0)
  /\ UNCHANGED <<v0, store, sockets, intervals, proc, now, ops, hist, ext>>

\* step % 30 = 0: saveRoom
tickSave(t) ==
  LET r == timers[t].room
  IN /\ Running(Cb(t))
     /\ timers[t].pc = "sent"
     /\ timers[t].step % SaveEvery = 0
     /\ Write(r, timers[t].cur, "tick", tornDown[r], spatialOff[r], NoResume)
     /\ timers' = [timers EXCEPT ![t].pc = "saved"]
     /\ Request(Cb(t), 1)
     /\ UNCHANGED <<v0, sockets, intervals, proc, now, ops, lastSpatial>>

\* step = (step + 1) % 60: the callback ends
tickEnd(t) ==
  /\ Running(Cb(t))
  /\ \/ timers[t].pc = "sent" /\ timers[t].step % SaveEvery # 0
     \/ timers[t].pc = "saved"
  /\ timers' = EndCallback(timers, t, (timers[t].step + 1) % StepPeriod)
  /\ Finish
  /\ UNCHANGED <<v0, store, sockets, intervals, proc, now, ops, lastSpatial, hist, ext>>

\* --------------------------------------------------------------- the clock
Advance ==
  /\ Turn
  /\ now < Epoch + MaxTime
  /\ now' = now + 1
  /\ UNCHANGED <<v0, store, sockets, intervals, timers, proc, pipe, micro, ops,
                 lastSpatial, hist, ext>>

\* ================== part_000 under the handlers of sockets/socketHandlers.js

\* getRoomId(): the first room the socket joined
getRoomId(p) == joined[p][1]

\* broadcastSpatialUpdate of part_000: the gains always follow the distance
broadcastSpatialUpdateV0(ls, r, room, socks) ==
  IF ClientIds(room) \cap socks = {} THEN ls
  ELSE [ls EXCEPT ![r] =
          [SpatialPayload(room, ClientIds(room) \cap socks)
             EXCEPT !.unity = FALSE, !.gains = gainsOfV0(room)]]

\* addClient of part_000 on the room object: no socket is dropped
addClientBodyV0(room, clientId, username) ==
  updateClientPositions(
    [room EXCEPT !.clients =
       PutClient(KeepOthers(room.clients, username), clientId, username)])

\* join-room: socket.join(roomId), then addClient up to its getRoom
join_room(p, r, u) ==
  /\ Call(p, "j_got", r, u, FALSE, Null, Null, Null)
  /\ joined' = [joined EXCEPT ![p] =
                  IF \E i \in 1..Len(@) : @[i] = r THEN @ ELSE Append(@, r)]
  /\ Submit(Op(p), 1)
  /\ UNCHANGED <<lastCommand, store, sockets, intervals, timers, now,
                 lastSpatial, hist, ext>>

\* addClient: the room was absent, initRoom
addClientInitV0(p) ==
  /\ Running(Op(p))
  /\ proc[p].pc = "j_got"
  /\ proc[p].loc = NoRoom
  /\ Write(proc[p].room, initRoomV0, p, FALSE, FALSE, NoResume)
  /\ proc' = [proc EXCEPT ![p].pc = "j_inited"]
  /\ Request(Op(p), 1)
  /\ UNCHANGED <<v0, sockets, intervals, timers, now, ops, lastSpatial>>

\* addClient: room = await this.getRoom(roomId) after initRoom
addClientGetRoomV0(p) ==
  /\ Running(Op(p))
  /\ proc[p].pc = "j_inited"
  /\ proc' = [proc EXCEPT ![p].pc = "j_reread", ![p].loc = store[proc[p].room]]
  /\ Request(Op(p), 1)
  /\ UNCHANGED <<v0, store, sockets, intervals, timers, now, ops, lastSpatial, hist, ext>>

\* addClient: evict the username, add the caller, register the socket, lay out
addClientJoinV0(p) ==
  /\ Running(Op(p))
  /\ proc[p].pc \in {"j_got", "j_reread"}
  /\ proc[p].loc # NoRoom
  /\ sockets' = sockets \cup {p}
  /\ proc' = [proc EXCEPT ![p].pc = "j_placed",
                          ![p].loc = addClientBodyV0(@, p, proc[p].user)]
  /\ Yield(Op(p), 0)
  /\ UNCHANGED <<v0, store, intervals, timers, now, ops, lastSpatial, hist, ext>>

\* addClient: saveRoom
addClientSaveV0(p) ==
  LET r == proc[p].room
  IN /\ Running(Op(p))
     /\ proc[p].pc = "j_placed"
     /\ Write(r, proc[p].loc, p, tornDown[r], spatialOff[r], NoResume)
     /\ proc' = [proc EXCEPT ![p].pc = "j_saved"]
     /\ Request(Op(p), 1)
     /\ UNCHANGED <<v0, sockets, intervals, timers, now, ops, lastSpatial>>

\* addClient: broadcastSpatialUpdate
addClientBroadcastV0(p) ==
  /\ Running(Op(p))
  /\ proc[p].pc = "j_saved"
  /\ lastSpatial' = broadcastSpatialUpdateV0(lastSpatial, proc[p].room,
                                             proc[p].loc, sockets)
  /\ proc' = [proc EXCEPT ![p].pc = "j_sent"]
  /\ Yield(Op(p), 1)
  /\ UNCHANGED <<v0, store, sockets, intervals, timers, now, ops, hist, ext>>

\* join-room after addClient: getClients, getRoomAudioState, getRoom
join_room_read(p) ==
  /\ Running(Op(p))
  /\ proc[p].pc \in {"j_sent", "j_read"}
  /\ proc[p].cmd = "none"
  /\ proc[p].reads < 3
  /\ proc' = [proc EXCEPT ![p].pc = "j_read", ![p].reads = @ + 1,
                          ![p].loc = store[proc[p].room]]
  /\ Request(Op(p), IF proc[p].reads = 2 THEN 1 ELSE 2)
  /\ UNCHANGED <<v0, store, sockets, intervals, timers, now, ops, lastSpatial, hist, ext>>

\* join-room: room-update, playback-state, and the spatial-update of a room
\* in spatial mode
join_room_update(p) ==
  /\ Running(Op(p))
  /\ proc[p].pc = "j_read"
  /\ proc[p].reads = 3
  /\ lastSpatial' = IF proc[p].loc # NoRoom /\ proc[p].loc.spatialEnabled
                    THEN broadcastSpatialUpdateV0(lastSpatial, proc[p].room,
                                                  proc[p].loc, sockets)
                    ELSE lastSpatial
  /\ Return(p)
  /\ Finish
  /\ UNCHANGED <<v0, store, sockets, intervals, timers, now, ops, hist, ext>>

\* play-audio: getRoomId, getRoom
play_audio(p, at, d) ==
  /\ joined[p] # <<>>
  /\ Call(p, "pa_room", getRoomId(p), "alice", TRUE, Null, d, at)
  /\ Submit(Op(p), 1)
  /\ UNCHANGED <<v0, store, sockets, intervals, timers, now, lastSpatial, hist, ext>>

\* play-audio: the fallback duration, then playAudio up to its getRoom
play_audio_playAudio(p) ==
  /\ Running(Op(p))
  /\ proc[p].pc = "pa_room"
  /\ proc' = [proc EXCEPT ![p].pc = "pa_got",
                          ![p].dur = fallbackDuration(proc[p].loc, @),
                          ![p].loc = store[proc[p].room]]
  /\ Request(Op(p), 1)
  /\ UNCHANGED <<v0, store, sockets, intervals, timers, now, ops, lastSpatial, hist, ext>>

\* playAudio of part_000: set the fields, saveRoom
playAudioV0(p) ==
  LET r == proc[p].room
      room == playAudioBodyV0(proc[p].loc, proc[p].enable, proc[p].dur, now)
  IN /\ Running(Op(p))
     /\ proc[p].pc = "pa_got"
     /\ proc[p].loc # NoRoom
     /\ Write(r, room, p, tornDown[r], spatialOff[r], NoResume)
     /\ proc' = [proc EXCEPT ![p].pc = "pa_saved", ![p].loc = room]
     /\ Request(Op(p), 2)
     /\ UNCHANGED <<v0, sockets, intervals, timers, now, ops, lastSpatial>>

\* play-audio: getRoomAudioState up to its getRoom
play_audio_getRoomAudioState(p) ==
  /\ Running(Op(p))
  /\ proc[p].pc = "pa_saved"
  /\ proc' = [proc EXCEPT ![p].pc = "pa_state", ![p].loc = store[proc[p].room]]
  /\ Request(Op(p), 2)
  /\ UNCHANGED <<v0, store, sockets, intervals, timers, now, ops, lastSpatial, hist, ext>>

\* the command a handler broadcasts to the room
Command(event, p, status, elapsed) ==
  [event |-> event, at |-> proc[p].at, status |-> status,
   elapsed |-> elapsed, sentAt |-> now]

\* play-audio: sendBroadcast
play_audio_sendBroadcast(p) ==
  LET room == proc[p].loc
  IN /\ Running(Op(p))
     /\ proc[p].pc = "pa_state"
     /\ lastCommand' = [lastCommand EXCEPT ![proc[p].room] =
           Command("play-audio", p, proc[p].enable,
                   IF room = NoRoom THEN 0 ELSE getElapsedTimeV0(room, now))]
     /\ Return(p)
     /\ Finish
     /\ UNCHANGED <<joined, store, sockets, intervals, timers, now, ops,
                    lastSpatial, hist, ext>>

\* pause-audio: getRoomId, then pauseAudio up to its getRoom
pause_audio(p, at) ==
  /\ joined[p] # <<>>
  /\ Call(p, "ps_got", getRoomId(p), "alice", FALSE, Null, Null, at)
  /\ Submit(Op(p), 1)
  /\ UNCHANGED <<v0, store, sockets, intervals, timers, now, lastSpatial, hist, ext>>

\* pauseAudio of part_000: songEnabled = false, saveRoom
pauseAudioV0(p) ==
  LET r == proc[p].room
      room == pauseAudioBodyV0(proc[p].loc)
  IN /\ Running(Op(p))
     /\ proc[p].pc = "ps_got"
     /\ proc[p].loc # NoRoom
     /\ Write(r, room, p, tornDown[r], spatialOff[r], NoResume)
     /\ proc' = [proc EXCEPT ![p].pc = "ps_saved", ![p].loc = room]
     /\ Request(Op(p), 2)
     /\ UNCHANGED <<v0, sockets, intervals, timers, now, ops, lastSpatial>>

\* pause-audio: sendBroadcast
pause_audio_sendBroadcast(p) ==
  /\ Running(Op(p))
  /\ proc[p].pc = "ps_saved"
  /\ lastCommand' = [lastCommand EXCEPT ![proc[p].room] =
                       Command("pause-audio", p, FALSE, 0)]
  /\ Return(p)
  /\ Finish
  /\ UNCHANGED <<joined, store, sockets, intervals, timers, now, ops,
                 lastSpatial, hist, ext>>

\* ============ the song RoomManager (part_002, lines 508-1130) under the
\* handlers of controllers/socketHandlers.js

SongIds == {"s1"}
SongCommands == {"song-play", "song-pause", "song-resume", "song-stop"}

\* initRoom of the song RoomManager: the room it writes (playbackRate is
\* never read); a song is known by its id, which also stands for its hlsUrl
initRoomSong ==
  [clients |-> <<>>,
   songs |-> {},
   currentSong |-> Null,
   songElapsedTime |-> 0,
   songStartTime |-> Null,
   isPlaying |-> FALSE,
   playbackStartTime |-> Null,
   serverTime |-> Null,
   soundSource |-> Origin,
   spatialEnabled |-> FALSE,
   hlsUrl |-> Null]

\* the room after uploadSong has added the songs of lib
WithSongs(room, lib) == [room EXCEPT !.songs = lib]

\* an event on a socket
Event(name, r, data) == [ev |-> name, room |-> r, data |-> data]

\* socket.emit(e) on each socket of to
Emit(ib, to, e) == [q \in Conns |-> IF q \in to THEN ib[q] \cup {e} ELSE ib[q]]

\* io.to(roomId): the sockets that joined the room
InRoom(r) == {q \in Conns : \E i \in 1..Len(joined[q]) : joined[q][i] = r}

\* the error that the command throws on the room it read, "" when none
songError(cmd, room, songId) ==
  IF room = NoRoom THEN "Room not found"
  ELSE IF cmd = "song-play" /\ songId[1] \notin room.songs
       THEN "Song not found"
  ELSE IF cmd = "song-resume" /\ room.currentSong = Null
       THEN "No song to resume"
  ELSE ""

\* playSong on the room object, at clock value t
playSongBody(room, songId, t) ==
  [room EXCEPT !.currentSong = Some(songId),
               !.isPlaying = TRUE,
               !.songElapsedTime = 0,
               !.songStartTime = Some(t),
               !.playbackStartTime = Some(t + PlayBuffer),
               !.hlsUrl = Some(songId),
               !.serverTime = Some(t)]

\* pauseSong on the room object, at clock value t
pauseSongBody(room, t) ==
  [room EXCEPT !.songElapsedTime =
                  IF room.isPlaying /\ Truthy(room.playbackStartTime)
                  THEN Max(0, t - room.playbackStartTime[1]) ELSE @,
               !.isPlaying = FALSE,
               !.songStartTime = Null,
               !.playbackStartTime = Null,
               !.serverTime = Some(t)]

\* resumeSong on the room object, at clock value t
resumeSongBody(room, t) ==
  [room EXCEPT !.isPlaying = TRUE,
               !.songStartTime = Some(t),
               !.playbackStartTime = Some(t + ResumeBuffer),
               !.serverTime = Some(t)]

\* stopSong on the room object, at clock value t
\* _calculateCurrentPlaybackTime at Date.now() = t
calculateCurrentPlaybackTime(room, t) ==
  IF ~room.isPlaying \/ ~Truthy(room.playbackStartTime)
  THEN room.songElapsedTime
  ELSE IF t < room.playbackStartTime[1]
       THEN room.songElapsedTime
       ELSE room.songElapsedTime + (t - room.playbackStartTime[1])

\* a stop that starts the room afresh, keeping the clients (a faulty variant,
\* which C26 must tell from the code)
stopSongBodyFresh(room, t) ==
  [initRoomSong EXCEPT !.clients = room.clients, !.serverTime = Some(t)]

stopSongBody(room, t) ==
  [room EXCEPT !.currentSong = Null,
               !.isPlaying = FALSE,
               !.songElapsedTime = 0,
               !.songStartTime = Null,
               !.playbackStartTime = Null,
               !.hlsUrl = Null,
               !.serverTime = Some(t)]

\* the room object the command saves
songBody(cmd, room, songId, t) ==
  CASE cmd = "song-play" -> playSongBody(room, songId[1], t)
    [] cmd = "song-pause" -> pauseSongBody(room, t)
    [] cmd = "song-resume" -> resumeSongBody(room, t)
    [] cmd = "song-stop" -> stopSongBody(room, t)

\* the event the handler broadcasts when the command has returned, and the
\* message of the error event of its catch
songDone(cmd) ==
  CASE cmd = "song-play" -> "song-started"
    [] cmd = "song-pause" -> "song-paused"
    [] cmd = "song-resume" -> "song-resumed"
    [] cmd = "song-stop" -> "song-stopped"

songFailed(cmd) ==
  CASE cmd = "song-play" -> "Failed to play song"
    [] cmd = "song-pause" -> "Failed to pause song"
    [] cmd = "song-resume" -> "Failed to resume song"
    [] cmd = "song-stop" -> "Failed to stop song"

\* _broadcastPlaybackSync(roomId, room): playback-sync to the members' sockets
broadcastPlaybackSync(ib, r, room, socks, t) ==
  Emit(ib, ClientIds(room) \cap socks,
       Event("playback-sync", r,
             [songId |-> room.currentSong, isPlaying |-> room.isPlaying,
              currentTime |-> calculateCurrentPlaybackTime(room, t)]))

\* create-room: createRoom found the id absent, initRoom writes the room
createRoomInitSong(p) ==
  /\ Running(Op(p))
  /\ proc[p].pc = "cr_checked"
  /\ proc[p].loc = NoRoom
  /\ Write(proc[p].room, initRoomSong, p, FALSE, FALSE, NoResume)
  /\ proc' = [proc EXCEPT ![p].pc = "cr_inited", ![p].loc = initRoomSong]
  /\ Request(Op(p), 2)
  /\ UNCHANGED <<v0, sockets, intervals, timers, now, ops, lastSpatial>>

\* create-room after createRoom: socket.join, room-created, set-client-id,
\* getClients
create_room(p) ==
  LET r == proc[p].room
  IN /\ Running(Op(p))
     /\ proc[p].pc = "cr_inited"
     /\ joined' = [joined EXCEPT ![p] =
                     IF \E i \in 1..Len(@) : @[i] = r THEN @ ELSE Append(@, r)]
     /\ inbox' = Emit(Emit(inbox, {p}, Event("room-created", r, [roomId |-> r])),
                      {p}, Event("set-client-id", r, [clientId |-> p]))
     /\ proc' = [proc EXCEPT ![p].pc = "cr_read", ![p].loc = store[r]]
     /\ Request(Op(p), 2)
     /\ UNCHANGED <<lastCommand, store, sockets, intervals, timers, now, ops,
                    lastSpatial, hist, hlsStreams, probe, ntp, hlsOutputDir, closed>>

\* create-room: room-update to the room; the handler has returned
create_room_update(p) ==
  LET r == proc[p].room
      clients == IF proc[p].loc = NoRoom THEN <<>> ELSE IdSeq(proc[p].loc)
  IN /\ Running(Op(p))
     /\ proc[p].pc = "cr_read"
     /\ inbox' = Emit(inbox, InRoom(r),
                      Event("room-update", r, [clients |-> clients]))
     /\ Return(p)
     /\ Finish
     /\ UNCHANGED <<v0, store, sockets, intervals, timers, now, ops,
                    lastSpatial, hist, hlsStreams, probe, ntp, hlsOutputDir, closed>>

\* song-play, song-pause, song-resume, song-stop: the command up to its getRoom
song_command(p, cmd, r, songId) ==
  /\ CallAs(p, "song_got", r, "alice", cmd, songId)
  /\ Submit(Op(p), 1)
  /\ UNCHANGED <<v0, store, sockets, intervals, timers, now, lastSpatial,
                 hist, ext>>

\* the command throws: no room, no such song, no song to resume
songCommandThrow(p) ==
  /\ Running(Op(p))
  /\ proc[p].pc = "song_got"
  /\ songError(proc[p].cmd, proc[p].loc, proc[p].song) # ""
  /\ proc' = [proc EXCEPT ![p].pc = "song_threw"]
  /\ Yield(Op(p), 0)
  /\ UNCHANGED <<v0, store, sockets, intervals, timers, now, ops, lastSpatial,
                 hist, ext>>

\* the catch of the handler: the error event to the sender
song_command_catch(p) ==
  /\ Running(Op(p))
  /\ proc[p].pc = "song_threw"
  /\ inbox' = Emit(inbox, {p},
                   Event("error", proc[p].room,
                         [message |-> songFailed(proc[p].cmd)]))
  /\ Return(p)
  /\ Finish
  /\ UNCHANGED <<v0, store, sockets, intervals, timers, now, ops, lastSpatial,
                 hist, hlsStreams, probe, ntp, hlsOutputDir, closed>>

\* the command changes the room object and saves it
songCommandSave(p) ==
  LET r == proc[p].room
      room == songBody(proc[p].cmd, proc[p].loc, proc[p].song, now)
  IN /\ Running(Op(p))
     /\ proc[p].pc = "song_got"
     /\ songError(proc[p].cmd, proc[p].loc, proc[p].song) = ""
     /\ Write(r, room, p, tornDown[r], spatialOff[r], NoResume)
     /\ proc' = [proc EXCEPT ![p].pc = "song_saved", ![p].loc = room]
     /\ Request(Op(p), 1)
     /\ UNCHANGED <<v0, sockets, intervals, timers, now, ops, lastSpatial>>

\* _broadcastPlaybackSync, then the command returns to the handler
songCommandSync(p) ==
  /\ Running(Op(p))
  /\ proc[p].pc = "song_saved"
  /\ inbox' = broadcastPlaybackSync(inbox, proc[p].room, proc[p].loc, sockets,
                                      now)
  /\ proc' = [proc EXCEPT ![p].pc = "song_synced"]
  /\ Yield(Op(p), 1)
  /\ UNCHANGED <<v0, store, sockets, intervals, timers, now, ops, lastSpatial,
                 hist, hlsStreams, probe, ntp, hlsOutputDir, closed>>

\* the handler broadcasts the result to the room
song_command_broadcast(p) ==
  /\ Running(Op(p))
  /\ proc[p].pc = "song_synced"
  /\ inbox' = Emit(inbox, InRoom(proc[p].room),
                   Event(songDone(proc[p].cmd), proc[p].room,
                         [songId |-> proc[p].loc.currentSong,
                          isPlaying |-> proc[p].loc.isPlaying]))
  /\ Return(p)
  /\ Finish
  /\ UNCHANGED <<v0, store, sockets, intervals, timers, now, ops, lastSpatial,
                 hist, hlsStreams, probe, ntp, hlsOutputDir, closed>>

\* ---- create-room, leave-room and disconnect of sockets/socketHandlers.js

\* create-room: createRoom of part_000 found the id absent, initRoom
createRoomInitV0(p) ==
  /\ Running(Op(p))
  /\ proc[p].pc = "cr_checked"
  /\ proc[p].loc = NoRoom
  /\ Write(proc[p].room, initRoomV0, p, FALSE, FALSE, NoResume)
  /\ proc' = [proc EXCEPT ![p].pc = "cr_made", ![p].loc = initRoomV0]
  /\ Request(Op(p), 2)
  /\ UNCHANGED <<v0, sockets, intervals, timers, now, ops, lastSpatial>>

\* create-room after createRoom: socket.join, then addClient up to its getRoom
create_room_addClient(p) ==
  LET r == proc[p].room
  IN /\ Running(Op(p))
     /\ proc[p].pc = "cr_made"
     /\ joined' = [joined EXCEPT ![p] =
                     IF \E i \in 1..Len(@) : @[i] = r THEN @ ELSE Append(@, r)]
     /\ proc' = [proc EXCEPT ![p].pc = "j_got", ![p].cmd = "create-room",
                             ![p].loc = store[r]]
     /\ Request(Op(p), 1)
     /\ UNCHANGED <<lastCommand, store, sockets, intervals, timers, now, ops,
                    lastSpatial, hist, ext>>

\* create-room after addClient: room-created, set-client-id, getClients
create_room_read(p) ==
  LET r == proc[p].room
  IN /\ Running(Op(p))
     /\ proc[p].pc = "j_sent"
     /\ proc[p].cmd = "create-room"
     /\ inbox' = Emit(Emit(inbox, {p}, Event("room-created", r, [roomId |-> r])),
                      {p}, Event("set-client-id", r, [clientId |-> p]))
     /\ proc' = [proc EXCEPT ![p].pc = "cr_read", ![p].loc = store[r]]
     /\ Request(Op(p), 2)
     /\ UNCHANGED <<v0, store, sockets, intervals, timers, now, ops,
                    lastSpatial, hist, hlsStreams, probe, ntp, hlsOutputDir, closed>>

\* leave-room: removeClient up to its getRoom
leave_room(p, r) ==
  /\ CallAs(p, "lv_got", r, "alice", "leave-room", Null)
  /\ Submit(Op(p), 1)
  /\ UNCHANGED <<v0, store, sockets, intervals, timers, now, lastSpatial,
                 hist, ext>>

\* disconnect: the socket is gone; rooms is what socket.rooms holds when the
\* handler runs (socket.io may have emptied it by then); with no room the
\* handler returns, else removeClient on the first one up to its getRoom
disconnect(p, rooms) ==
  /\ Turn
  /\ p \notin closed
  /\ proc[p].pc = "idle"
  /\ closed' = closed \cup {p}
  /\ joined' = [joined EXCEPT ![p] = <<>>]
  /\ IF rooms = <<>>
     THEN UNCHANGED <<proc, ops, pipe, micro>>
     ELSE /\ CallAs(p, "lv_got", rooms[1], "alice", "disconnect", Null)
          /\ Submit(Op(p), 1)
  /\ UNCHANGED <<lastCommand, store, sockets, intervals, timers, now,
                 lastSpatial, hist, inbox, hlsStreams, probe, ntp, hlsOutputDir>>

\* removeClient of part_000: the room is absent
removeClientAbsentV0(p) ==
  /\ Running(Op(p))
  /\ proc[p].pc = "lv_got"
  /\ proc[p].loc = NoRoom
  /\ proc' = [proc EXCEPT ![p].pc = "lv_done"]
  /\ Yield(Op(p), 0)
  /\ UNCHANGED <<v0, store, sockets, intervals, timers, now, ops, lastSpatial,
                 hist, ext>>

\* removeClient of part_000: the caller was the last member, deleteRoom
removeClientLastV0(p) ==
  LET r == proc[p].room
  IN /\ Running(Op(p))
     /\ proc[p].pc = "lv_got"
     /\ proc[p].loc # NoRoom
     /\ DropClient(proc[p].loc.clients, p) = <<>>
     /\ sockets' = sockets \ {p}
     /\ timers' = clearInterval(timers, intervals[r])
     /\ intervals' = [intervals EXCEPT ![r] = 0]
     /\ Write(r, NoRoom, p, tornDown[r], spatialOff[r], NoResume)
     /\ proc' = [proc EXCEPT ![p].pc = "lv_done", ![p].loc = NoRoom]
     /\ Request(Op(p), 2)
     /\ UNCHANGED <<v0, now, ops, lastSpatial>>

\* removeClient of part_000: members remain, lay out again
removeClientLeaveV0(p) ==
  LET left == DropClient(proc[p].loc.clients, p)
  IN /\ Running(Op(p))
     /\ proc[p].pc = "lv_got"
     /\ proc[p].loc # NoRoom
     /\ left # <<>>
     /\ sockets' = sockets \ {p}
     /\ proc' = [proc EXCEPT ![p].pc = "lv_placed",
                   ![p].loc = updateClientPositions([@ EXCEPT !.clients = left])]
     /\ Yield(Op(p), 0)
     /\ UNCHANGED <<v0, store, intervals, timers, now, ops, lastSpatial, hist,
                    ext>>

\* removeClient of part_000: saveRoom
removeClientSaveV0(p) ==
  LET r == proc[p].room
  IN /\ Running(Op(p))
     /\ proc[p].pc = "lv_placed"
     /\ Write(r, proc[p].loc, p, tornDown[r], spatialOff[r], NoResume)
     /\ proc' = [proc EXCEPT ![p].pc = "lv_saved"]
     /\ Request(Op(p), 1)
     /\ UNCHANGED <<v0, sockets, intervals, timers, now, ops, lastSpatial>>

\* removeClient of part_000: broadcastSpatialUpdate, then the return
removeClientBroadcastV0(p) ==
  /\ Running(Op(p))
  /\ proc[p].pc = "lv_saved"
  /\ lastSpatial' = broadcastSpatialUpdateV0(lastSpatial, proc[p].room,
                                             proc[p].loc, sockets)
  /\ proc' = [proc EXCEPT ![p].pc = "lv_done"]
  /\ Yield(Op(p), 1)
  /\ UNCHANGED <<v0, store, sockets, intervals, timers, now, ops, hist, ext>>

\* leave-room and disconnect after removeClient: socket.leave (leave-room),
\* getClients
leave_room_read(p) ==
  LET r == proc[p].room
  IN /\ Running(Op(p))
     /\ proc[p].pc = "lv_done"
     /\ joined' = [joined EXCEPT ![p] = SelectSeq(@, LAMBDA x : x # r)]
     /\ proc' = [proc EXCEPT ![p].pc = "cr_read", ![p].loc = store[r]]
     /\ Request(Op(p), 2)
     /\ UNCHANGED <<lastCommand, store, sockets, intervals, timers, now, ops,
                    lastSpatial, hist, ext>>

\* ================= the HLS RoomManager (part_002, lines 1-506): playAudio
\* with transcoding, addClient with the late-joiner sync

\* initRoom of the HLS RoomManager: the room it writes
initRoomHLS ==
  [clients |-> <<>>,
   spatialEnabled |-> FALSE,
   songEnabled |-> FALSE,
   savedElapsedTime |-> 0,
   startTime |-> Null,
   songDuration |-> 0,
   listeningSource |-> Origin,
   hlsPlaylistUrl |-> Null,
   audioUrl |-> Null]

\* the segment durations of the playlists that the transcoder may write
SegmentDurations == {<<>>, <<MaxSegment>>, <<1, MaxSegment>>}

RECURSIVE SumTo(_, _)
SumTo(durations, n) ==
  IF n = 0 THEN 0 ELSE SumTo(durations, n - 1) + durations[n]

\* the hlsData that processAudioToHLS resolves with: the segment table as
\* parseM3U8Segments accumulates it, and the total duration
hlsData(durations) ==
  [segments |-> [i \in 1..Len(durations) |->
                   [index |-> i,
                    startTime |-> SumTo(durations, i - 1),
                    endTime |-> SumTo(durations, i - 1) + durations[i]]],
   duration |-> SumTo(durations, Len(durations))]

NoSegment == [none |-> TRUE]

\* a property read off a room object; a room object has no roomId
Undefined == "undefined"
roomIdOf(room) == IF "roomId" \in DOMAIN room THEN room["roomId"] ELSE Undefined

\* getSegmentForTime(roomId, elapsedTime) on the table streams
getSegmentForTime(streams, roomId, elapsedTime) ==
  LET data == IF roomId \in DOMAIN streams THEN streams[roomId] ELSE NoStream
      hits == IF data = NoStream THEN {}
              ELSE {i \in 1..Len(data.segments) :
                      /\ elapsedTime >= data.segments[i].startTime
                      /\ elapsedTime < data.segments[i].endTime}
  IN IF hits = {} THEN NoSegment
     ELSE data.segments[CHOOSE i \in hits : \A j \in hits : i <= j]

\* the late-joiner-sync event of room r for segment s at elapsed time e
LateJoinerSync(r, s, e) ==
  Event("late-joiner-sync", r,
        [currentSegment |-> s, segmentOffset |-> e - s.startTime,
         totalElapsedTime |-> e])

\* sendLateJoinerSync(clientId, room) at clock value t: the inboxes after it
sendLateJoinerSyncBody(ib, streams, socks, r, clientId, room, t) ==
  LET e == getElapsedTime(room, t)
      s == getSegmentForTime(streams, roomIdOf(room), e)
  IN IF clientId \notin socks \/ s = NoSegment THEN ib
     ELSE Emit(ib, {clientId}, LateJoinerSync(r, s, e))

\* addClient of the HLS RoomManager on the room object: evict the username,
\* add the caller as a late joiner or not, lay out
addClientBodyHLS(room, clientId, username) ==
  LET kept == PutClient(KeepOthers(room.clients, username), clientId, username)
  IN updateClientPositions(
       [room EXCEPT !.clients =
          [i \in 1..Len(kept) |->
             IF kept[i].id = clientId
             THEN [id |-> clientId, username |-> username, pos |-> kept[i].pos,
                   lateJoiner |-> room.songEnabled]
             ELSE kept[i]]])

\* the caller's entry in the room object says late joiner
isLateJoiner(room, clientId) ==
  \E i \in 1..Len(room.clients) :
    room.clients[i].id = clientId /\ room.clients[i].lateJoiner

\* addClient: the room was absent, initRoom
addClientInitHLS(p) ==
  /\ Running(Op(p))
  /\ proc[p].pc = "add_got"
  /\ proc[p].loc = NoRoom
  /\ Write(proc[p].room, initRoomHLS, p, FALSE, FALSE, NoResume)
  /\ proc' = [proc EXCEPT ![p].pc = "add_inited", ![p].loc = initRoomHLS]
  /\ Request(Op(p), 1)
  /\ UNCHANGED <<v0, sockets, intervals, timers, now, ops, lastSpatial>>

\* addClient: evict the username, add the caller, register the socket, lay out
addClientJoinHLS(p) ==
  /\ Running(Op(p))
  /\ \/ proc[p].pc = "add_got" /\ proc[p].loc # NoRoom
     \/ proc[p].pc = "add_inited"
  /\ sockets' = (sockets \ Evicted(proc[p].loc.clients, proc[p].user)) \cup {p}
  /\ proc' = [proc EXCEPT ![p].pc = "add_placed",
                          ![p].loc = addClientBodyHLS(@, p, proc[p].user)]
  /\ Yield(Op(p), 0)
  /\ UNCHANGED <<v0, store, intervals, timers, now, ops, lastSpatial, hist, ext>>

\* addClient: _sendCompleteStateToClient, initial-sync and spatial-update
addClientSyncHLS(p) ==
  LET room == proc[p].loc
  IN /\ Running(Op(p))
     /\ proc[p].pc = "add_saved"
     /\ inbox' = Emit(inbox, {p},
                      Event("initial-sync", proc[p].room,
                            [songEnabled |-> room.songEnabled,
                             elapsedTime |-> getElapsedTime(room, now)]))
     /\ lastSpatial' = sendCompleteStateToClient(lastSpatial, proc[p].room,
                                                 room, p)
     /\ proc' = [proc EXCEPT ![p].pc =
                   IF isLateJoiner(room, p) /\ room.hlsPlaylistUrl # Null
                   THEN "add_late" ELSE "add_synced"]
     /\ Yield(Op(p), 0)
     /\ UNCHANGED <<v0, store, sockets, intervals, timers, now, ops, hist,
                    hlsStreams, probe, ntp, hlsOutputDir, closed>>

\* addClient: sendLateJoinerSync
sendLateJoinerSync(p) ==
  /\ Running(Op(p))
  /\ proc[p].pc = "add_late"
  /\ inbox' = sendLateJoinerSyncBody(inbox, hlsStreams, sockets, proc[p].room,
                                     p, proc[p].loc, now)
  /\ proc' = [proc EXCEPT ![p].pc = "add_synced"]
  /\ Yield(Op(p), 0)
  /\ UNCHANGED <<v0, store, sockets, intervals, timers, now, ops, lastSpatial,
                 hist, hlsStreams, probe, ntp, hlsOutputDir, closed>>

\* playAudio(roomId, enable, elapsedTime, songDuration, audioUrl) up to its
\* getRoom; audioUrl is null or the url of a file
playAudioHLS(p, r, en, e, audioUrl) ==
  /\ proc[p].pc = "idle"
  /\ ops > 0
  /\ ops' = ops - 1
  /\ proc' = Enter(p, r,
                [Idle EXCEPT !.pc = "play_got", !.room = r, !.enable = en,
                             !.resume = e, !.song = audioUrl,
                             !.loc = store[r], !.snap = store[r],
                             !.first = Quiet(r, p), !.alone = Quiet(r, p)])
  /\ Submit(Op(p), 1)
  /\ UNCHANGED <<v0, store, sockets, intervals, timers, now, lastSpatial,
                 hist, ext>>

\* playAudio: audioUrl && enable, processAudioToHLS starts the transcoder
processAudioToHLS(p) ==
  /\ Running(Op(p))
  /\ proc[p].pc = "play_got"
  /\ proc[p].loc # NoRoom
  /\ proc[p].song # Null /\ proc[p].enable
  /\ proc' = [proc EXCEPT ![p].pc = "play_hls"]
  /\ Finish
  /\ UNCHANGED <<v0, store, sockets, intervals, timers, now, ops, lastSpatial,
                 hist, ext>>

\* the transcoder fails: playAudio throws Audio processing failed
processAudioToHLSError(p) ==
  /\ Turn
  /\ proc[p].pc = "play_hls"
  /\ Return(p)
  /\ UNCHANGED <<v0, store, sockets, intervals, timers, pipe, micro, now, ops,
                 lastSpatial, hist, ext>>

\* lines 272-293 of playAudio on the room object, at clock value t
playAudioBodyHLS(room, enable, elapsedTime, audioUrl, data, t) ==
  LET r1 == IF audioUrl # Null /\ enable
            THEN [room EXCEPT !.hlsPlaylistUrl = Some("playlist.m3u8"),
                              !.audioUrl = audioUrl,
                              !.songDuration = data.duration]
            ELSE room
  IN playAudioBody(r1, enable, elapsedTime, Null, t)

\* the transcoder ends with a playlist of the given segment durations:
\* the room object and hlsStreams are set, saveRoom
processAudioToHLSEnd(p, durations) ==
  LET r == proc[p].room
      room == playAudioBodyHLS(proc[p].loc, TRUE, proc[p].resume, proc[p].song,
                               hlsData(durations), now)
  IN /\ proc[p].pc = "play_hls"
     /\ hlsStreams' = [hlsStreams EXCEPT ![r] = hlsData(durations)]
     /\ store' = [store EXCEPT ![r] = room]
     /\ writer' = [writer EXCEPT ![r] = p]
     /\ proc' = [proc EXCEPT ![p].pc = "play_saved", ![p].loc = room]
     /\ Submit(Op(p), 1)
     /\ UNCHANGED <<v0, sockets, intervals, timers, now, ops, lastSpatial,
                    tornDown, spatialOff, resumed, inbox, probe, ntp, hlsOutputDir, closed>>

\* playAudio with no transcoding: the room object is set, saveRoom
playAudioSaveHLS(p) ==
  LET r == proc[p].room
      room == playAudioBodyHLS(proc[p].loc, proc[p].enable, proc[p].resume,
                               Null, NoStream, now)
  IN /\ Running(Op(p))
     /\ proc[p].pc = "play_got"
     /\ proc[p].loc # NoRoom
     /\ ~(proc[p].song # Null /\ proc[p].enable)
     /\ Write(r, room, p, tornDown[r], spatialOff[r], NoResume)
     /\ proc' = [proc EXCEPT ![p].pc = "play_saved", ![p].loc = room]
     /\ Request(Op(p), 1)
     /\ UNCHANGED <<v0, sockets, intervals, timers, now, ops, lastSpatial>>

\* playAudio: broadcastHLSCommand, hls-command to the members' sockets
broadcastHLSCommand(p) ==
  LET room == proc[p].loc
  IN /\ Running(Op(p))
     /\ proc[p].pc = "play_saved"
     /\ inbox' = Emit(inbox, ClientIds(room) \cap sockets,
                      Event("hls-command", proc[p].room,
                            [action |-> IF proc[p].enable THEN "play" ELSE "pause",
                             elapsedTime |-> getElapsedTime(room, now)]))
     /\ proc' = [proc EXCEPT ![p].pc = "play_done"]
     /\ Yield(Op(p), 0)
     /\ UNCHANGED <<v0, store, sockets, intervals, timers, now, ops,
                    lastSpatial, hist, hlsStreams, probe, ntp, hlsOutputDir, closed>>

\* ---------------------------------------------------------- specifications
\* Spec: rooms, membership and spatial mode of the RoomManager of part_001
Next ==
  \/ \E k \in 1..Len(pipe) : Receive(k)
  \/ Hop
  \/ \E p \in Conns : createRoom(p, RoomIds)
  \/ \E p \in Conns : createRoomRetry(p, RoomIds)
  \/ \E p \in Conns : createRoomInit(p)
  \/ \E p \in Conns : createRoomReturn(p)
  \/ \E p \in Conns, r \in RoomIds, u \in Usernames : addClient(p, r, u)
  \/ \E p \in Conns : addClientInit(p)
  \/ \E p \in Conns : addClientJoin(p)
  \/ \E p \in Conns : addClientSave(p)
  \/ \E p \in Conns : addClientSync(p)
  \/ \E p \in Conns : addClientBroadcast(p)
  \/ \E p \in Conns : addClientReturn(p)
  \/ \E p \in Conns, r \in RoomIds : removeClient(p, r)
  \/ \E p \in Conns : removeClientAbsent(p)
  \/ \E p \in Conns : removeClientLast(p)
  \/ \E p \in Conns : deleteRoom(p)
  \/ \E p \in Conns : removeClientLeave(p)
  \/ \E p \in Conns : removeClientSave(p)
  \/ \E p \in Conns : removeClientBroadcast(p)
  \/ \E p \in Conns : removeClientReturn(p)
  \/ \E p \in Conns, r \in RoomIds, en \in BOOLEAN : toggleSpatialAudio(p, r, en)
  \/ \E p \in Conns : toggleSpatialAudioAbsent(p)
  \/ \E p \in Conns : startSpatialAudio(p)
  \/ \E p \in Conns : stopSpatialAudio(p)
  \/ \E p \in Conns : toggleSpatialAudioBroadcast(p)
  \/ \E p \in Conns : toggleSpatialAudioReturn(p)
  \/ \E t \in TimerIds : tick(t)
  \/ \E t \in TimerIds : tickStop(t)
  \/ \E t \in TimerIds : tickMove(t)
  \/ \E t \in TimerIds : tickBroadcast(t)
  \/ \E t \in TimerIds : tickSave(t)
  \/ \E t \in TimerIds : tickEnd(t)

Spec == Init /\ [][Next]_vars

\* SpecPlay: membership and playback of one room of the RoomManager of
\* part_001, with the clock.  The room is there as createRoom leaves it.
InitPlay == InitWith(MaxPlayOps, [NoRooms EXCEPT ![PlayRoom] = initRoom])

NextPlay ==
  \/ \E k \in 1..Len(pipe) : Receive(k)
  \/ Hop
  \/ \E p \in Conns, u \in Usernames : addClient(p, PlayRoom, u)
  \/ \E p \in Conns : addClientInit(p)
  \/ \E p \in Conns : addClientJoin(p)
  \/ \E p \in Conns : addClientSave(p)
  \/ \E p \in Conns : addClientSync(p)
  \/ \E p \in Conns : addClientBroadcast(p)
  \/ \E p \in Conns : addClientReturn(p)
  \/ \E p \in Conns : removeClient(p, PlayRoom)
  \/ \E p \in Conns : removeClientAbsent(p)
  \/ \E p \in Conns : removeClientLast(p)
  \/ \E p \in Conns : deleteRoom(p)
  \/ \E p \in Conns : removeClientLeave(p)
  \/ \E p \in Conns : removeClientSave(p)
  \/ \E p \in Conns : removeClientBroadcast(p)
  \/ \E p \in Conns : removeClientReturn(p)
  \/ \E p \in Conns, e \in ResumeInputs, d \in DurInputs :
        playAudio(p, PlayRoom, TRUE, e, d)
  \/ \E p \in Conns : playAudio(p, PlayRoom, FALSE, Null, Null)
  \/ \E p \in Conns : playAudioAbsent(p)
  \/ \E p \in Conns : playAudioStop(p)
  \/ \E p \in Conns : playAudioSave(p)
  \/ \E p \in Conns : pauseAudio(p, PlayRoom)
  \/ \E p \in Conns : pauseAudioStop(p)
  \/ \E p \in Conns : pauseAudioSave(p)
  \/ \E p \in Conns : broadcastCompleteState(p)
  \/ \E p \in Conns : playAudioReturn(p)
  \/ Advance

SpecPlay == InitPlay /\ [][NextPlay]_vars

\* SpecV0: the RoomManager of part_000 under the join-room, play-audio and
\* pause-audio handlers, with the clock
InitV0 == InitWith(MaxV0Ops, NoRooms)

NextV0 ==
  \/ \E k \in 1..Len(pipe) : Receive(k)
  \/ Hop
  \/ \E p \in Conns, r \in RoomIds, u \in Usernames : join_room(p, r, u)
  \/ \E p \in Conns : addClientInitV0(p)
  \/ \E p \in Conns : addClientGetRoomV0(p)
  \/ \E p \in Conns : addClientJoinV0(p)
  \/ \E p \in Conns : addClientSaveV0(p)
  \/ \E p \in Conns : addClientBroadcastV0(p)
  \/ \E p \in Conns : join_room_read(p)
  \/ \E p \in Conns : join_room_update(p)
  \/ \E p \in Conns, at \in ExecuteAtInputs, d \in DurInputs : play_audio(p, at, d)
  \/ \E p \in Conns : play_audio_playAudio(p)
  \/ \E p \in Conns : playAudioV0(p)
  \/ \E p \in Conns : play_audio_getRoomAudioState(p)
  \/ \E p \in Conns : play_audio_sendBroadcast(p)
  \/ \E p \in Conns, at \in ExecuteAtInputs : pause_audio(p, at)
  \/ \E p \in Conns : pauseAudioV0(p)
  \/ \E p \in Conns : pause_audio_sendBroadcast(p)
  \/ Advance

SpecV0 == InitV0 /\ [][NextV0]_vars

\* SpecSong: the song RoomManager under the create-room and song-play,
\* song-pause, song-resume, song-stop handlers of controllers/
\* socketHandlers.js.  No room is there, or a room that an earlier connection
\* created and uploaded the songs to.
\* a room of the song RoomManager that earlier joins left in the store
SongRooms ==
  {WithSongs(initRoomSong, SongIds),
   updateClientPositions(
     [WithSongs(initRoomSong, SongIds) EXCEPT
        !.clients = <<[id |-> "c1", username |-> "alice", pos |-> Slot(0, 0)]>>])}

InitSong ==
  \/ InitWith(MaxSongOps, NoRooms)
  \/ \E room \in SongRooms :
       InitWith(MaxSongOps, [NoRooms EXCEPT !["r1"] = room])

NextSong ==
  \/ \E k \in 1..Len(pipe) : Receive(k)
  \/ Hop
  \/ \E p \in Conns : createRoom(p, RoomIds)
  \/ \E p \in Conns : createRoomRetry(p, RoomIds)
  \/ \E p \in Conns : createRoomInitSong(p)
  \/ \E p \in Conns : create_room(p)
  \/ \E p \in Conns : create_room_update(p)
  \/ \E p \in Conns, r \in RoomIds, s \in SongIds :
        song_command(p, "song-play", r, Some(s))
  \/ \E p \in Conns, r \in RoomIds, cmd \in SongCommands \ {"song-play"} :
        song_command(p, cmd, r, Null)
  \/ \E p \in Conns : songCommandThrow(p)
  \/ \E p \in Conns : song_command_catch(p)
  \/ \E p \in Conns : songCommandSave(p)
  \/ \E p \in Conns : songCommandSync(p)
  \/ \E p \in Conns : song_command_broadcast(p)
  \/ Advance

SpecSong == InitSong /\ [][NextSong]_vars

\* SpecSession: the sessions of the connections under the create-room,
\* join-room, leave-room and disconnect handlers of sockets/socketHandlers.js
\* over the RoomManager of part_000
InitSession == InitWith(MaxSessionOps, NoRooms)

NextSession ==
  \/ \E k \in 1..Len(pipe) : Receive(k)
  \/ Hop
  \/ \E p \in Conns \ closed : createRoom(p, RoomIds)
  \/ \E p \in Conns : createRoomRetry(p, RoomIds)
  \/ \E p \in Conns : createRoomInitV0(p)
  \/ \E p \in Conns : create_room_addClient(p)
  \/ \E p \in Conns \ closed, r \in RoomIds, u \in Usernames : join_room(p, r, u)
  \/ \E p \in Conns : addClientInitV0(p)
  \/ \E p \in Conns : addClientGetRoomV0(p)
  \/ \E p \in Conns : addClientJoinV0(p)
  \/ \E p \in Conns : addClientSaveV0(p)
  \/ \E p \in Conns : addClientBroadcastV0(p)
  \/ \E p \in Conns : join_room_read(p)
  \/ \E p \in Conns : join_room_update(p)
  \/ \E p \in Conns : create_room_read(p)
  \/ \E p \in Conns : create_room_update(p)
  \/ \E p \in Conns \ closed, r \in RoomIds : leave_room(p, r)
  \/ \E p \in Conns : disconnect(p, joined[p])
  \/ \E p \in Conns : disconnect(p, <<>>)
  \/ \E p \in Conns : removeClientAbsentV0(p)
  \/ \E p \in Conns : removeClientLastV0(p)
  \/ \E p \in Conns : removeClientLeaveV0(p)
  \/ \E p \in Conns : removeClientSaveV0(p)
  \/ \E p \in Conns : removeClientBroadcastV0(p)
  \/ \E p \in Conns : leave_room_read(p)

SpecSession == InitSession /\ [][NextSession]_vars

\* SpecHLS: membership and playback of one room of the HLS RoomManager,
\* with the transcoder and the clock
InitHLS == InitWith(MaxHlsOps, NoRooms)

NextHLS ==
  \/ \E k \in 1..Len(pipe) : Receive(k)
  \/ Hop
  \/ \E p \in Conns, u \in Usernames : addClient(p, PlayRoom, u)
  \/ \E p \in Conns : addClientInitHLS(p)
  \/ \E p \in Conns : addClientJoinHLS(p)
  \/ \E p \in Conns : addClientSave(p)
  \/ \E p \in Conns : addClientSyncHLS(p)
  \/ \E p \in Conns : sendLateJoinerSync(p)
  \/ \E p \in Conns : addClientBroadcast(p)
  \/ \E p \in Conns : addClientReturn(p)
  \/ \E p \in Conns, en \in BOOLEAN, audioUrl \in {Null, Some("song.mp3")} :
        playAudioHLS(p, PlayRoom, en, Null, audioUrl)
  \/ \E p \in Conns : playAudioAbsent(p)
  \/ \E p \in Conns : processAudioToHLS(p)
  \/ \E p \in Conns : processAudioToHLSError(p)
  \/ \E p \in Conns, durations \in SegmentDurations :
        processAudioToHLSEnd(p, durations)
  \/ \E p \in Conns : playAudioSaveHLS(p)
  \/ \E p \in Conns : broadcastHLSCommand(p)
  \/ \E p \in Conns : playAudioReturn(p)
  \/ Advance

SpecHLS == InitHLS /\ [][NextHLS]_vars

\* ------------------------------------------------- _calculateGain on its own
\* the radii RADIUS may be, and the distances (in 1/100) a call is made with:
\* zero, within the circle, at and around maxDistance, far outside
Radii == {50, 100, 150}
Distances(radius) ==
  {0, 1, 50 * radius, 100 * radius - 1, 100 * radius, 100 * radius + 1,
   200 * radius}

\* two calls of _calculateGain that are still to be made
Inputs ==
  UNION {{[gen |-> "none", radius |-> radius, d1 |-> d1, d2 |-> d2,
           g1 |-> 0, g2 |-> 0] :
            d1 \in Distances(radius), d2 \in Distances(radius)} :
         radius \in Radii}

InitGain ==
  /\ store = NoRooms
  /\ sockets = {}
  /\ intervals = [r \in RoomIds |-> 0]
  /\ timers = [t \in TimerIds |-> NoTimer]
  /\ proc = [p \in Conns |-> Idle]
  /\ pipe = <<>>
  /\ micro = <<>>
  /\ now = Epoch
  /\ ops = 0
  /\ lastSpatial = [r \in RoomIds |-> NoPayload]
  /\ writer = [r \in RoomIds |-> "none"]
  /\ tornDown = [r \in RoomIds |-> FALSE]
  /\ spatialOff = [r \in RoomIds |-> FALSE]
  /\ resumed = [r \in RoomIds |-> NoResume]
  /\ joined = [p \in Conns |-> <<>>]
  /\ lastCommand = [r \in RoomIds |-> NoCommand]
  /\ inbox = [p \in Conns |-> {}]
  /\ hlsStreams = [r \in RoomIds |-> NoStream]
  /\ closed = {}
  /\ ntp = NoNtp
  /\ hlsOutputDir = {}
  /\ probe \in Inputs

\* _calculateGain of part_001 (and of the HLS RoomManager), twice
calculateGainCall ==
  /\ probe # NoProbe
  /\ probe.gen = "none"
  /\ probe' = [probe EXCEPT !.gen = "part_001",
                 !.g1 = calculateGain(probe.d1, probe.radius),
                 !.g2 = calculateGain(probe.d2, probe.radius)]
  /\ UNCHANGED <<store, sockets, intervals, timers, proc, pipe, micro, now, ops,
                 lastSpatial, hist, v0, inbox, hlsStreams, closed, ntp, hlsOutputDir>>

\* _calculateGain of part_000, twice
calculateGainCallV0 ==
  /\ probe # NoProbe
  /\ probe.gen = "none"
  /\ probe' = [probe EXCEPT !.gen = "part_000",
                 !.g1 = calculateGainV0(probe.d1),
                 !.g2 = calculateGainV0(probe.d2)]
  /\ UNCHANGED <<store, sockets, intervals, timers, proc, pipe, micro, now, ops,
                 lastSpatial, hist, v0, inbox, hlsStreams, closed, ntp, hlsOutputDir>>

\* _calculateGain of the song RoomManager, twice
calculateGainCallSong ==
  /\ probe # NoProbe
  /\ probe.gen = "none"
  /\ probe' = [probe EXCEPT !.gen = "song",
                 !.g1 = calculateGainSong(probe.d1, probe.radius),
                 !.g2 = calculateGainSong(probe.d2, probe.radius)]
  /\ UNCHANGED <<store, sockets, intervals, timers, proc, pipe, micro, now, ops,
                 lastSpatial, hist, v0, inbox, hlsStreams, closed, ntp, hlsOutputDir>>

NextGain ==
  \/ calculateGainCall
  \/ calculateGainCallV0
  \/ calculateGainCallSong

SpecGain == InitGain /\ [][NextGain]_vars

\* ------------------------------------------- TimeManager and the time
\* exchanges of sockets/socketHandlers.js
\* The reference clock runs ahead of Date.now() by skew; a reply of the
\* reference source is a callback of its own, which carries a date or an
\* error.
Skews == {0 - 1000, 0, 1000}
T0Inputs == {1, 2}
NoRequest == [none |-> TRUE]

\* TimeManager.getServerTime
getServerTime(tm) == tm.clock + tm.ntpOffset

\* TimeManager.isStale
isStale(tm) == tm.clock - tm.lastSync > syncInterval

\* the constructor: ntpOffset = 0, lastSync = 0, and initNTPSync has called
\* syncWithNTP, whose request is on its way
TimeManager(skew) ==
  [ntpOffset |-> 0, lastSync |-> 0, clock |-> syncInterval, skew |-> skew,
   pending |-> <<"init">>, due |-> Null, attempts |-> 1, outcome |-> "none",
   doneAt |-> Null, logged |-> 0, unhandled |-> 0, served |-> Null,
   requests |-> [p \in Conns |-> NoRequest], asked |-> 0]

InitTime ==
  /\ store = NoRooms
  /\ sockets = {}
  /\ intervals = [r \in RoomIds |-> 0]
  /\ timers = [t \in TimerIds |-> NoTimer]
  /\ proc = [p \in Conns |-> Idle]
  /\ pipe = <<>>
  /\ micro = <<>>
  /\ now = Epoch
  /\ ops = 0
  /\ lastSpatial = [r \in RoomIds |-> NoPayload]
  /\ writer = [r \in RoomIds |-> "none"]
  /\ tornDown = [r \in RoomIds |-> FALSE]
  /\ spatialOff = [r \in RoomIds |-> FALSE]
  /\ resumed = [r \in RoomIds |-> NoResume]
  /\ joined = [p \in Conns |-> <<>>]
  /\ lastCommand = [r \in RoomIds |-> NoCommand]
  /\ inbox = [p \in Conns |-> {}]
  /\ hlsStreams = [r \in RoomIds |-> NoStream]
  /\ closed = {}
  /\ probe = NoProbe
  /\ hlsOutputDir = {}
  /\ \E skew \in Skews : ntp = TimeManager(skew)

\* what no action of the time source touches
rooms == <<store, sockets, intervals, timers, proc, pipe, micro, now, ops,
           lastSpatial, hist, lastCommand, hlsStreams, probe, hlsOutputDir,
           closed>>

\* syncWithNTP: the callback of getNetworkTime without an error; initNTPSync
\* then registers the interval
syncWithNTPResolve ==
  /\ ntp.pending # <<>>
  /\ LET localTime == ntp.clock
         ntpTime == ntp.clock + ntp.skew
         first == Head(ntp.pending) = "init"
     IN ntp' = [ntp EXCEPT !.ntpOffset = ntpTime - localTime,
                           !.lastSync = localTime,
                           !.pending = Tail(@),
                           !.outcome = "ok",
                           !.doneAt = Some(ntp.clock),
                           !.due = IF first THEN Some(ntp.clock + syncInterval)
                                   ELSE @]
  /\ UNCHANGED <<rooms, joined, inbox>>

\* a failed sync that falls back to the local clock (a faulty variant, which
\* C22 must tell from the code)
syncWithNTPRejectReset ==
  /\ ntp.pending # <<>>
  /\ LET first == Head(ntp.pending) = "init"
     IN ntp' = [ntp EXCEPT !.ntpOffset = 0,
                           !.pending = Tail(@),
                           !.outcome = "failed",
                           !.doneAt = Some(ntp.clock),
                           !.logged = IF first THEN @ + 1 ELSE @,
                           !.unhandled = IF first THEN @ ELSE @ + 1]
  /\ UNCHANGED <<rooms, joined, inbox>>

\* syncWithNTP: the callback with an error, reject(err).  initNTPSync catches
\* the rejection of its own call and logs it, registering nothing; the
\* promise of a call made by the interval is held by nobody
syncWithNTPReject ==
  /\ ntp.pending # <<>>
  /\ LET first == Head(ntp.pending) = "init"
     IN ntp' = [ntp EXCEPT !.pending = Tail(@),
                           !.outcome = "failed",
                           !.doneAt = Some(ntp.clock),
                           !.logged = IF first THEN @ + 1 ELSE @,
                           !.unhandled = IF first THEN @ ELSE @ + 1]
  /\ UNCHANGED <<rooms, joined, inbox>>

\* the interval registered by initNTPSync fires: syncWithNTP
syncInterval_fire ==
  /\ ntp.due # Null
  /\ ntp.clock = ntp.due[1]
  /\ ntp.attempts < MaxSyncs
  /\ ntp' = [ntp EXCEPT !.pending = Append(@, "interval"),
                        !.attempts = @ + 1,
                        !.due = Some(ntp.clock + syncInterval)]
  /\ UNCHANGED <<rooms, joined, inbox>>

\* Date.now() moves on, up to the next firing of the interval
clockAdvance(dt) ==
  /\ ntp.clock + dt <= (MaxPeriods + 1) * syncInterval
  /\ ntp.due # Null => ntp.clock + dt <= ntp.due[1]
  /\ ntp' = [ntp EXCEPT !.clock = @ + dt]
  /\ UNCHANGED <<rooms, joined, inbox>>

\* a caller reads the time: it never waits for a sync
getServerTimeCall ==
  /\ ntp.served # Some(getServerTime(ntp))
  /\ ntp' = [ntp EXCEPT !.served = Some(getServerTime(ntp))]
  /\ UNCHANGED <<rooms, joined, inbox>>

\* ntp-request {t0}: t1 = Date.now(), then getNetworkTime
ntp_request(p, t0) ==
  /\ ntp.requests[p] = NoRequest
  /\ ntp.asked < MaxRequests
  /\ ntp' = [ntp EXCEPT !.requests[p] = [t0 |-> t0, t1 |-> ntp.clock,
                                         resync |-> FALSE],
                        !.asked = @ + 1]
  /\ UNCHANGED <<rooms, joined, inbox>>

\* resync-request: t0 = Date.now(), then getNetworkTime
resync_request(p) ==
  /\ ntp.requests[p] = NoRequest
  /\ ntp.asked < MaxRequests
  /\ ntp' = [ntp EXCEPT !.requests[p] = [t0 |-> ntp.clock, t1 |-> ntp.clock,
                                         resync |-> TRUE],
                        !.asked = @ + 1]
  /\ UNCHANGED <<rooms, joined, inbox>>

\* the callback of getNetworkTime in both handlers: t1 is the reference date,
\* or on an error the local time (of the request in ntp-request, of the
\* callback in resync-request); t2 = Date.now(); ntp-response
ntp_response(p, err) ==
  /\ ntp.requests[p] # NoRequest
  /\ LET req == ntp.requests[p]
         t1 == IF err THEN (IF req.resync THEN ntp.clock ELSE req.t1)
               ELSE ntp.clock + ntp.skew
         t2 == ntp.clock
     IN inbox' = Emit(inbox, {p},
                      Event("ntp-response", "none",
                            [t0 |-> req.t0, t1 |-> t1, t2 |-> t2,
                             err |-> err]))
  /\ ntp' = [ntp EXCEPT !.requests[p] = NoRequest]
  /\ UNCHANGED <<rooms, joined>>

\* join-room while the store is down: socket.join, then addClient rejects at
\* its getRoom and nothing in the handler catches it
join_room_rejected(p, r) ==
  /\ joined[p] = <<>>
  /\ ntp.unhandled < MaxRequests
  /\ joined' = [joined EXCEPT ![p] = <<r>>]
  /\ ntp' = [ntp EXCEPT !.unhandled = @ + 1]
  /\ UNCHANGED <<rooms, inbox>>

NextTime ==
  \/ syncWithNTPResolve
  \/ syncWithNTPReject
  \/ syncInterval_fire
  \/ \E dt \in {syncInterval \div 2, syncInterval} : clockAdvance(dt)
  \/ getServerTimeCall
  \/ \E p \in Conns, t0 \in T0Inputs : ntp_request(p, t0)
  \/ \E p \in Conns : resync_request(p)
  \/ \E p \in Conns, err \in BOOLEAN : ntp_response(p, err)
  \/ \E p \in Conns : join_room_rejected(p, PlayRoom)

SpecTime == InitTime /\ [][NextTime]_vars

\* ================================================================ claims

\* ---- C1 (SpecPlay)
\* C1: when a room that is Playing with elapsed e > 0 is paused and
\* playAudio(enable = true) with no resume point runs next, elapsed() right
\* after that play is e, and d time units later it is min(e + d, songDuration).
C1_ResumeFromPause ==
  \A r \in RoomIds :
    (resumed[r].phase = "resumed" /\ store[r] # NoRoom)
      => getElapsedTime(store[r], now)
           = Min(resumed[r].e + (now - resumed[r].at), store[r].songDuration)

\* ---- C2 (SpecV0)
\* C2: in every persisted room, songEnabled = true implies startTime # null
\* and songEnabled = false implies startTime = null.
C2_RunningXorPaused ==
  \A r \in RoomIds :
    store[r] # NoRoom => (store[r].songEnabled <=> store[r].startTime # Null)

\* ---- C3 (SpecPlay)
\* C3: elapsed() never exceeds songDuration: in every persisted room, in every
\* room object a call holds, and at every clock value.
C3_ElapsedWithinDuration ==
  /\ \A r \in RoomIds :
       store[r] # NoRoom => getElapsedTime(store[r], now) <= store[r].songDuration
  /\ \A p \in Conns :
       proc[p].loc # NoRoom
         => getElapsedTime(proc[p].loc, now) <= proc[p].loc.songDuration

\* the room has been Playing for longer than the song lasts
C3_Witness ==
  \E r \in RoomIds :
    /\ store[r] # NoRoom
    /\ store[r].songEnabled
    /\ store[r].songDuration > 0
    /\ now - store[r].startTime[1] > store[r].songDuration
    /\ getElapsedTime(store[r], now) = store[r].songDuration

\* ---- C4 (SpecV0)
\* the calls of play-audio / pause-audio that have written the room
Applied(p) == proc[p].pc \in {"pa_saved", "pa_state", "ps_saved"}

\* C4: a play-audio or pause-audio command whose serverTimeToExecute is still
\* to come changes nothing in the persisted room and is not broadcast before
\* that time.
C4_DeferredExecution ==
  /\ \A p \in Conns :
       (Applied(p) /\ proc[p].alone /\ proc[p].at # Null /\ proc[p].at[1] > now)
         => store[proc[p].room] = proc[p].snap
  /\ \A r \in RoomIds :
       (lastCommand[r] # NoCommand /\ lastCommand[r].at # Null)
         => lastCommand[r].at[1] <= lastCommand[r].sentAt

\* ---- C5 (SpecPlay)
PlaybackDone(p) ==
  proc[p].pc \in {"play_saved", "play_done", "pause_saved", "pause_done"}

\* the playback command of connection p applied to a room object
ApplyCommand(p, room) ==
  IF proc[p].pc \in {"play_saved", "play_done"}
  THEN playAudioBody(room, proc[p].enable, proc[p].resume, proc[p].dur, now)
  ELSE pauseAudioBody(room, now)

\* the fields of a room that do not depend on the clock
Settled(room) == <<room.songEnabled, room.songDuration, room.clients>>

\* C5: playback commands without an execution timestamp are applied in receipt
\* order: when c1 is received before c2 and both have written, the persisted
\* room is the one obtained by applying c1 completely and then c2.
C5_ReceiptOrder ==
  \A p, q \in Conns :
    (/\ p # q
     /\ PlaybackDone(p) /\ PlaybackDone(q)
     /\ proc[p].room = proc[q].room
     /\ proc[p].first /\ ~proc[q].first
     /\ proc[p].snap # NoRoom
     /\ store[proc[p].room] # NoRoom)
      => Settled(store[proc[p].room])
           = Settled(ApplyCommand(q, ApplyCommand(p, proc[p].snap)))

\* ---- C6 (Spec)
\* C6: createRoom never hands out an id that is in use: the id is absent from
\* the store when initRoom writes its room, so no call overwrites a room that
\* another call has created and no two callers get the same id.
C6_FreshRoomId ==
  [][\A p \in Conns :
       (proc[p].pc = "cr_checked" /\ proc'[p].pc = "cr_inited")
         => store[proc[p].room] = NoRoom]_vars

\* ---- C7 (Spec)
UniqueNames(room) ==
  \A i, j \in 1..Len(room.clients) :
    (room.clients[i].username = room.clients[j].username
       \/ room.clients[i].id = room.clients[j].id) => i = j

LaidOut(room) ==
  \A i \in 1..Len(room.clients) :
    room.clients[i].pos = Slot(i - 1, Len(room.clients))

\* the addClient of B found another member A under B's username
Collision(p) ==
  /\ proc[p].loc # NoRoom
  /\ p \notin ClientIds(proc[p].loc)
  /\ \E i \in 1..Len(proc[p].loc.clients) :
       proc[p].loc.clients[i].username = proc[p].user

\* C7: no two members of a persisted room share a username; adding B under
\* the username of member A removes A, leaves N members (not N + 1), and the
\* positions written are slots 0..N-1 of N for exactly those members.
C7_UsernameCollision ==
  /\ [](\A r \in RoomIds :
          store[r] # NoRoom => UniqueNames(store[r]) /\ LaidOut(store[r]))
  /\ [][\A p \in Conns :
          (proc[p].pc = "add_got" /\ proc'[p].pc = "add_placed" /\ Collision(p))
            => LET old == proc[p].loc
                   new == proc'[p].loc
               IN /\ ClientIds(new) \cap Evicted(old.clients, proc[p].user) = {}
                  /\ p \in ClientIds(new)
                  /\ Len(new.clients) = Len(old.clients)
                  /\ LaidOut(new)]_vars
  /\ [][\A p \in Conns :
          (proc[p].pc = "add_placed" /\ proc'[p].pc = "add_saved")
            => store'[proc[p].room] = proc[p].loc]_vars

\* B has just been written in place of A
C7_Witness ==
  \E p \in Conns :
    /\ proc[p].pc = "add_saved"
    /\ proc[p].snap # NoRoom
    /\ \E i \in 1..Len(proc[p].snap.clients) :
         /\ proc[p].snap.clients[i].username = proc[p].user
         /\ proc[p].snap.clients[i].id # p
    /\ ClientIds(store[proc[p].room]) = {p}

\* ---- C8 (Spec)
\* C8: once removeClient has removed the last client of a room, the room is
\* absent from the store, no timer is registered for it, and no spatial-update
\* or store write for it happens until a create or join re-creates it.
C8_TeardownIsFinal ==
  \A r \in RoomIds :
    tornDown[r] => /\ store[r] = NoRoom
                   /\ intervals[r] = 0
                   /\ lastSpatial[r] = NoPayload

\* ---- C9 (Spec)
\* C9: after toggleSpatialAudio(roomId, false) has completed, the persisted
\* room has spatialEnabled = false and its source at the origin, no timer is
\* registered, the last snapshot broadcast has enabled = false and gain 1.0
\* for every member, and no snapshot with enabled = true follows until
\* spatial mode is enabled again.
C9_SpatialOffIsFinal ==
  \A r \in RoomIds :
    (spatialOff[r] /\ store[r] # NoRoom)
      => /\ ~store[r].spatialEnabled
         /\ store[r].listeningSource = Origin
         /\ intervals[r] = 0
         /\ lastSpatial[r] # NoPayload
         /\ ~lastSpatial[r].enabled
         /\ lastSpatial[r].unity

\* ---- C10 (SpecPlay)
Wrote(p) ==
  proc[p].pc \in {"add_saved", "add_synced", "add_done", "rem_saved",
                  "rem_done", "play_saved", "play_done", "pause_saved",
                  "pause_done"}
Membership(p) ==
  proc[p].pc \in {"add_saved", "add_synced", "add_done", "rem_saved", "rem_done"}
Joining(p) == proc[p].pc \in {"add_saved", "add_synced", "add_done"}
\* the room a call worked on: the room it read, or the initial room
Base(p) == IF proc[p].snap = NoRoom THEN initRoom ELSE proc[p].snap
Playback(room) ==
  <<room.songEnabled, room.startTime, room.savedElapsedTime, room.songDuration>>

\* two mutations of one room that overlapped and read the same persisted room
Raced(p, q) ==
  /\ p # q
  /\ Wrote(p) /\ Wrote(q)
  /\ proc[p].room = proc[q].room
  /\ proc[p].snap = proc[q].snap
  /\ ~proc[p].first \/ ~proc[q].first

\* C10: when two mutations of a room both read it before either writes, the
\* persisted room after both writes is the room written by the later write:
\* the earlier mutation's change is absent from it, the two are never merged.
C10_LastWriterWins ==
  \A p, q \in Conns :
    (Raced(p, q) /\ writer[proc[q].room] = q)
      => LET r == proc[q].room
         IN /\ store[r] = proc[q].loc
            /\ Membership(q) => Playback(store[r]) = Playback(Base(q))
            /\ PlaybackDone(q) => store[r].clients = Base(q).clients
            /\ (Joining(p) /\ p \notin ClientIds(Base(q)))
                 => p \notin ClientIds(store[r])

\* a pause and a join raced on a Playing room and the join wrote last
C10_Witness ==
  \E p, q \in Conns :
    /\ Raced(p, q)
    /\ writer[proc[q].room] = q
    /\ proc[p].pc \in {"pause_saved", "pause_done"}
    /\ Joining(q)
    /\ proc[q].snap # NoRoom
    /\ proc[q].snap.songEnabled
    /\ store[proc[q].room].songEnabled

\* ---- C11 (SpecSong)
\* C11: when a create-room event has been handled without error, the new
\* room is in the store, the creating connection's client id is a key of its
\* clients, and the creator has been sent the room id and its client id.
C11_CreatorIsMember ==
  [][\A p \in Conns :
       create_room_update(p) =>
         LET r == proc[p].room
         IN /\ store'[r] # NoRoom
            /\ p \in ClientIds(store'[r])
            /\ Event("room-created", r, [roomId |-> r]) \in inbox'[p]
            /\ Event("set-client-id", r, [clientId |-> p]) \in inbox'[p]]_vars

\* ---- C12 (SpecSession)
\* the persisted rooms that have the client id of connection p as a member
RoomsOf(p) == {r \in RoomIds : store[r] # NoRoom /\ p \in ClientIds(store[r])}

\* C12: when every event received has been handled, the client id of a
\* connection is a member of at most one persisted room, and the client id of
\* a connection that has disconnected is a member of none.
C12_OneSession ==
  (\A q \in Conns : proc[q].pc = "idle") =>
    \A p \in Conns :
      /\ Cardinality(RoomsOf(p)) <= 1
      /\ p \in closed => RoomsOf(p) = {}

\* ---- C13 (SpecHLS)
\* the segment of the room's table that holds the elapsed time of the room
\* object which the addClient of connection p holds
SegmentOf(p) ==
  getSegmentForTime(hlsStreams, proc[p].room,
                    getElapsedTime(proc[p].loc, now))

\* C13: when an addClient that found the room Playing, with the elapsed time
\* e inside a known segment of the room, goes on to its last broadcast, the
\* event late-joiner-sync with that segment, segmentOffset = e - startTime
\* and totalElapsedTime = e has been emitted to the joining client, and to
\* nobody else.
C13_LateJoinerSync ==
  [][\A p \in Conns :
       (/\ proc[p].pc \in {"add_saved", "add_late"}
        /\ proc'[p].pc = "add_synced"
        /\ isLateJoiner(proc[p].loc, p)
        /\ SegmentOf(p) # NoSegment)
       => /\ LateJoinerSync(proc[p].room, SegmentOf(p),
                            getElapsedTime(proc[p].loc, now)) \in inbox'[p]
          /\ \A q \in Conns \ {p} : inbox'[q] = inbox[q]]_vars

\* ---- C14 (SpecHLS)
\* C14: when the late-joiner sync of an addClient finds no segment for the
\* elapsed time, the caller is a persisted member with its slot, has got
\* initial-sync, and the step leaves a mark of the degraded sync: an event to
\* the caller or a change of the room.
C14_DegradedSync ==
  [][\A p \in Conns :
       (/\ proc[p].pc = "add_late"
        /\ proc'[p].pc = "add_synced"
        /\ SegmentOf(p) = NoSegment)
       => LET r == proc[p].room
          IN /\ store[r] # NoRoom
             /\ \E i \in 1..Len(store[r].clients) :
                  /\ store[r].clients[i].id = p
                  /\ store[r].clients[i].pos = Slot(i - 1, Len(store[r].clients))
             /\ \E ev \in inbox[p] : ev.ev = "initial-sync" /\ ev.room = r
             /\ \/ inbox'[p] # inbox[p]
                \/ proc'[p].loc # proc[p].loc
                \/ store'[r] # store[r]]_vars

\* ---- C15 (SpecSong)
\* C15: a song-play, song-pause, song-resume or song-stop command on a room
\* id that was not in the store when the command read it does not throw,
\* writes nothing to the store, starts no timer, and no error event goes to
\* the sender.
C15_MissingRoomNoOp ==
  [][\A p \in Conns :
       (proc[p].cmd \in SongCommands /\ proc[p].snap = NoRoom)
       => /\ proc'[p].pc # "song_threw"
          /\ proc'[p] # proc[p] =>
                store' = store /\ timers' = timers /\ intervals' = intervals
          /\ \A ev \in inbox'[p] \ inbox[p] : ev.ev # "error"]_vars

\* ---- C16 (SpecSong)
\* the command of connection p found its room, and found nothing playing
\* (song-pause) or no current song (song-resume)
PreconditionFailed(p) ==
  /\ proc[p].loc # NoRoom
  /\ \/ proc[p].cmd = "song-pause" /\ ~proc[p].loc.isPlaying
     \/ proc[p].cmd = "song-resume" /\ proc[p].loc.currentSong = Null

\* C16: song-pause on a room in which nothing is playing and song-resume on
\* a room with no current song throw, the handler sends the error event to
\* the sender, and the command leaves the store as it was.
C16_PreconditionFailure ==
  [][\A p \in Conns :
       /\ (proc[p].pc = "song_got" /\ PreconditionFailed(p)
             /\ proc'[p].pc # "song_got")
          => proc'[p].pc = "song_threw" /\ store' = store
       /\ (proc[p].pc = "song_threw" /\ PreconditionFailed(p)
             /\ proc'[p].pc # "song_threw")
          => /\ Event("error", proc[p].room,
                      [message |-> songFailed(proc[p].cmd)]) \in inbox'[p]
             /\ store' = store]_vars

\* ---- C17 (SpecV0)
\* C17: a spatial-update snapshot emitted for a room object whose spatial mode
\* is disabled carries the gain 1.0 for every member, whatever the positions
\* of the members and of the source are.
C17_DisabledGainIsOne ==
  \A r \in RoomIds :
    (lastSpatial[r] # NoPayload /\ ~lastSpatial[r].enabled)
      => \A id \in DOMAIN lastSpatial[r].gains : lastSpatial[r].gains[id] = 1000

\* ---- C18 (Spec)
RECURSIVE SumOver(_, _)
SumOver(f, S) ==
  IF S = {} THEN 0
  ELSE LET x == CHOOSE y \in S : TRUE IN f[x] + SumOver(f, S \ {x})

\* a snapshot for the N members of the room object it was built from
WellFormed(pl) ==
  LET N == Len(pl.members)
      ids == {pl.members[i] : i \in 1..N}
  IN /\ DOMAIN pl.gains = ids
     /\ DOMAIN pl.positions = ids
     /\ Cardinality(ids) = N
     /\ \A id \in ids : pl.gains[id] >= 100 /\ pl.gains[id] <= 1000
     /\ SumOver(pl.gains, ids) <= 1000 * N

MaxDistanceOf(pr) == IF pr.gen = "part_000" THEN 10000 ELSE 100 * pr.radius
MinGainOf(pr) ==
  IF pr.gen = "part_000" THEN 50 ELSE IF pr.gen = "song" THEN 500 ELSE 100

\* C19: over the distances d >= 0 of the bounded set, _calculateGain gives
\* gain(0) = 1, gain(d) = gMin for every d >= maxDistance, and
\* gain(d1) >= gain(d2) whenever d1 <= d2; every gain lies in [gMin, 1].
C19_GainModel ==
  (probe # NoProbe /\ probe.gen # "none")
    => /\ probe.d1 = 0 => probe.g1 = 1000
       /\ probe.d2 = 0 => probe.g2 = 1000
       /\ probe.d1 >= MaxDistanceOf(probe) => probe.g1 = MinGainOf(probe)
       /\ probe.d2 >= MaxDistanceOf(probe) => probe.g2 = MinGainOf(probe)
       /\ probe.d1 <= probe.d2 => probe.g1 >= probe.g2
       /\ probe.g1 >= MinGainOf(probe) /\ probe.g1 <= 1000
       /\ probe.g2 >= MinGainOf(probe) /\ probe.g2 <= 1000

\* _calculateGain of part_001 has been called at distance 0, just beyond
\* maxDistance and in between
C19_Witness ==
  /\ probe # NoProbe
  /\ probe.gen = "part_001"
  /\ \/ probe.d1 = 0 /\ probe.d2 = 100 * probe.radius + 1
        /\ probe.g1 = 1000 /\ probe.g2 = 100
     \/ probe.d1 = 50 * probe.radius /\ probe.d2 = 100 * probe.radius - 1
        /\ probe.g1 = 500 /\ probe.g2 = 100

\* ---- C20 (Spec)
\* the point (x, y), in 1/100, of a client position on the circle of RADIUS
Point(pos) ==
  <<(SlotRadius(pos, RADIUS) * cos(SlotAngle(pos))) \div 100,
    (SlotRadius(pos, RADIUS) * cos(SlotAngle(pos) + 45)) \div 100>>

\* member i holds slot i of N, and the N points are pairwise distinct
OnCircle(room) ==
  LET N == Len(room.clients)
  IN /\ \A i \in 1..N : room.clients[i].pos = Slot(i - 1, N)
     /\ \A i, j \in 1..N :
          Point(room.clients[i].pos) = Point(room.clients[j].pos) => i = j

\* C20: when addClient or removeClient returns with a room of N >= 1 members,
\* the member at index i of that room holds slot i of N (angle 2 * PI * i / N
\* on the circle of radius R), the N members are at N pairwise distinct
\* points, a second layout of the same members changes nothing, and the
\* persisted room is laid out in the same way; the slots of a room of up to
\* MaxMembers members are pairwise distinct points.
C20_PositionLayout ==
  /\ [][\A p \in Conns :
          (proc[p].pc \in {"add_done", "rem_done"} /\ proc'[p].pc = "idle")
            => LET room == proc[p].loc
                   r == proc[p].room
               IN /\ room # NoRoom
                  /\ Len(room.clients) >= 1
                  /\ OnCircle(room)
                  /\ updateClientPositions(room) = room
                  /\ store[r] # NoRoom => OnCircle(store[r])]_vars
  /\ [](\A n \in 1..MaxMembers : \A i, j \in 0..(n - 1) :
          Point(Slot(i, n)) = Point(Slot(j, n)) => i = j)

\* addClient is about to return with a room of two members, at (R, 0) and at
\* (-R, 0)
C20_Witness ==
  \E p \in Conns :
    /\ proc[p].pc = "add_done"
    /\ proc[p].loc # NoRoom
    /\ Len(proc[p].loc.clients) = 2
    /\ Point(proc[p].loc.clients[1].pos) = <<100 * RADIUS, 0>>
    /\ Point(proc[p].loc.clients[2].pos) = <<0 - 100 * RADIUS, 0>>
    /\ store[proc[p].room] = proc[p].loc

\* ---- C21 (Spec)
\* toggleSpatialAudio(roomId, false) has read the room and is about to cancel
TogglingOff(p) ==
  /\ proc[p].pc = "tog_got"
  /\ ~proc[p].enable
  /\ proc[p].loc # NoRoom

\* the room read is already off and no scheduler is registered for it
AlreadyOff(p) ==
  /\ ~proc[p].loc.spatialEnabled
  /\ proc[p].loc.listeningSource = Origin
  /\ intervals[proc[p].room] = 0

\* C21: toggleSpatialAudio(roomId, false) cancels the scheduler registered
\* for the room and goes on to save without an error whether or not one is
\* registered, and leaves the registration empty; applied to a room that is
\* already off with no scheduler registered (a second toggle off in a row, or
\* a room that never had one) it leaves the timers, the empty registration
\* and the persisted room as they were.
C21_CancelIdempotent ==
  [][\A p \in Conns :
       (TogglingOff(p) /\ proc'[p].pc # proc[p].pc)
         => LET r == proc[p].room
            IN /\ proc'[p].pc = "tog_saved"
               /\ intervals'[r] = 0
               /\ intervals[r] # 0 => ~timers'[intervals[r]].live
               /\ ~store'[r].spatialEnabled
               /\ store'[r].listeningSource = Origin
               /\ AlreadyOff(p)
                    => /\ timers' = timers
                       /\ intervals' = intervals
                       /\ store'[r] = proc[p].loc
                       /\ store[r] = proc[p].loc => store' = store]_vars

\* a toggle off of a room with members that was already off has just saved,
\* alone on the room: the store is as the call found it
C21_Witness ==
  \E p \in Conns :
    /\ proc[p].pc = "tog_saved"
    /\ ~proc[p].enable
    /\ proc[p].alone
    /\ proc[p].snap # NoRoom
    /\ ~proc[p].snap.spatialEnabled
    /\ proc[p].snap.clients # <<>>
    /\ writer[proc[p].room] = p
    /\ store[proc[p].room] = proc[p].snap
    /\ intervals[proc[p].room] = 0

\* ---- C22 (SpecTime)
\* a call of syncWithNTP ends with an error
SyncFails == Len(ntp'.pending) < Len(ntp.pending) /\ ntp'.outcome = "failed"

\* C22: when syncWithNTP fails, ntpOffset and lastSync keep the values of the
\* last successful sync, the call's promise is rejected (the rejection
\* reaches initNTPSync or nobody, one of the two), and getServerTime() goes
\* on returning Date.now() + the retained offset; a caller of getServerTime
\* gets Date.now() + ntpOffset whether or not a sync is under way.
C22_FailedSyncKeepsOffset ==
  /\ [][SyncFails
          => /\ ntp'.ntpOffset = ntp.ntpOffset
             /\ ntp'.lastSync = ntp.lastSync
             /\ ntp'.logged + ntp'.unhandled = ntp.logged + ntp.unhandled + 1
             /\ getServerTime(ntp') = ntp'.clock + ntp.ntpOffset]_vars
  /\ [][ntp'.served # ntp.served
          => ntp'.served = Some(ntp.clock + ntp.ntpOffset)]_vars

\* a sync has failed after one that succeeded with an offset, and a caller
\* has read the time since
C22_Witness ==
  /\ ntp # NoNtp
  /\ ntp.outcome = "failed"
  /\ ntp.ntpOffset # 0
  /\ ntp.ntpOffset = ntp.skew
  /\ ntp.lastSync > 0
  /\ ntp.lastSync < ntp.clock
  /\ ntp.served = Some(ntp.clock + ntp.skew)

\* ---- C23 (SpecTime)
\* C23: once a sync attempt has ended, with a date or with an error, the
\* first attempt included, the next attempt is scheduled no later than one
\* sync period after it.
C23_FixedPeriod ==
  (ntp # NoNtp /\ ntp.doneAt # Null)
    => /\ ntp.due # Null
       /\ ntp.due[1] <= ntp.doneAt[1] + syncInterval

\* ---- C24 (SpecTime)
\* C24: no failure of the store or of the reference time source escapes as
\* an unhandled promise rejection.
C24_NoUnhandledRejection == ntp # NoNtp => ntp.unhandled = 0

\* ---- C30 (SpecTime)
\* C30: the ntp-response to a request echoes the t0 of that request and
\* carries t1 <= t2, whether or not the reference source answered and
\* whatever its offset from Date.now() is; nothing of the exchange is kept.
C30_NtpResponse ==
  [][\A p \in Conns :
       inbox'[p] # inbox[p]
         => /\ ntp.requests[p] # NoRequest
            /\ ntp'.requests[p] = NoRequest
            /\ \A e \in inbox'[p] \ inbox[p] :
                 /\ e.ev = "ntp-response"
                 /\ e.data.t0 = ntp.requests[p].t0
                 /\ e.data.t1 <= e.data.t2]_vars

\* ---- C26 (SpecSong)
\* C26: the room that stopSong saves has currentSong = null, isPlaying =
\* false, songElapsedTime = 0, songStartTime = null, playbackStartTime = null
\* and hlsUrl = null, so that the playback time computed from it is 0 at any
\* time, and has the clients, the songs and the spatial fields of the room
\* that stopSong read.
C26_StopClearsPlayback ==
  [][\A p \in Conns :
       (/\ proc[p].pc = "song_got" /\ proc'[p].pc = "song_saved"
        /\ proc[p].cmd = "song-stop")
         => LET old == proc[p].loc
                new == store'[proc[p].room]
            IN /\ new.currentSong = Null
               /\ ~new.isPlaying
               /\ new.songElapsedTime = 0
               /\ new.songStartTime = Null
               /\ new.playbackStartTime = Null
               /\ new.hlsUrl = Null
               /\ \A t \in now..(now + PlayBuffer + 1) :
                    calculateCurrentPlaybackTime(new, t) = 0
               /\ new.clients = old.clients
               /\ new.songs = old.songs
               /\ new.soundSource = old.soundSource
               /\ new.spatialEnabled = old.spatialEnabled]_vars

\* stopSong has just saved a room with a member in which a song was playing
C26_Witness ==
  \E p \in Conns :
    /\ proc[p].pc = "song_saved"
    /\ proc[p].cmd = "song-stop"
    /\ proc[p].snap # NoRoom
    /\ proc[p].snap.isPlaying
    /\ proc[p].snap.currentSong # Null
    /\ proc[p].snap.clients # <<>>
    /\ proc[p].snap.songs # {}
    /\ store[proc[p].room] = proc[p].loc
    /\ ~store[proc[p].room].isPlaying

\* ---- C27 (SpecPlay)
\* playAudio(enable = true) with a resume position is about to save
Seeking(p) ==
  /\ proc[p].pc = "play_got"
  /\ proc[p].enable
  /\ proc[p].resume # Null
  /\ proc[p].loc # NoRoom

\* C27: playAudio(enable = true) with an explicit resume position e, on a
\* room that is Playing or Paused, saves the room Playing with startTime =
\* now - e and savedElapsedTime = 0, so that elapsed() right after it is
\* min(e, songDuration), for e = 0 as well.
C27_SeekArithmetic ==
  [][\A p \in Conns :
       (Seeking(p) /\ proc'[p].pc = "play_saved")
         => LET e == proc[p].resume[1]
                new == store'[proc[p].room]
            IN /\ new.songEnabled
               /\ new.startTime = Some(now - e)
               /\ new.savedElapsedTime = 0
               /\ getElapsedTime(new, now) = Min(e, new.songDuration)
               /\ e = 0 => getElapsedTime(new, now) = 0]_vars

\* a play at position 0 has just saved, on a room that was Playing at a
\* later position
C27_Witness ==
  \E p \in Conns :
    /\ proc[p].pc = "play_saved"
    /\ proc[p].enable
    /\ proc[p].resume = Some(0)
    /\ proc[p].snap # NoRoom
    /\ proc[p].snap.songEnabled
    /\ getElapsedTime(proc[p].snap, now) > 0
    /\ store[proc[p].room] = proc[p].loc
    /\ getElapsedTime(store[proc[p].room], now) = 0

\* ---- C28 (Spec)
\* a room as initRoom leaves it but for the clients: not playing, spatial
\* mode off, the source at the origin
Initialised(room) ==
  /\ room # NoRoom
  /\ ~room.songEnabled
  /\ room.startTime = Null
  /\ room.savedElapsedTime = 0
  /\ ~room.spatialEnabled
  /\ room.listeningSource = Origin

\* C28: addClient on a room id that is absent from the store first writes an
\* initialised room without clients (not playing, spatial mode off, source at
\* the origin), then saves that room with the caller as its only member; when
\* the call returns, no other call having worked on the room meanwhile, the
\* persisted room exists and has exactly that member.
C28_CreateOnDemand ==
  /\ [][\A p \in Conns :
          (proc[p].pc = "add_got" /\ proc[p].loc = NoRoom
             /\ proc'[p].pc # proc[p].pc)
            => /\ proc'[p].pc = "add_inited"
               /\ Initialised(store'[proc[p].room])
               /\ store'[proc[p].room].clients = <<>>]_vars
  /\ [][\A p \in Conns :
          (proc[p].pc = "add_placed" /\ proc'[p].pc = "add_saved"
             /\ proc[p].snap = NoRoom)
            => /\ Initialised(store'[proc[p].room])
               /\ ClientIds(store'[proc[p].room]) = {p}]_vars
  /\ [][\A p \in Conns :
          (proc[p].pc = "add_done" /\ proc'[p].pc = "idle"
             /\ proc[p].snap = NoRoom /\ proc[p].alone)
            => /\ Initialised(store[proc[p].room])
               /\ ClientIds(store[proc[p].room]) = {p}]_vars

\* addClient is about to return from a room id that was absent: the room is
\* persisted with the caller alone in it
C28_Witness ==
  \E p \in Conns :
    /\ proc[p].pc = "add_done"
    /\ proc[p].snap = NoRoom
    /\ proc[p].alone
    /\ store[proc[p].room] # NoRoom
    /\ ClientIds(store[proc[p].room]) = {p}
    /\ store[proc[p].room] = proc[p].loc

\* ---- C25 (Spec)
\* a call on room B or a callback of a timer of room B takes a step
ActsOn(B) ==
  \/ \E p \in Conns :
       /\ proc'[p] # proc[p]
       /\ \/ proc[p].pc # "idle" /\ proc[p].room = B
          \/ proc'[p].pc # "idle" /\ proc'[p].room = B
  \/ \E t \in TimerIds :
       /\ timers'[t] # timers[t]
       /\ \/ timers[t].pc # "free" /\ timers[t].room = B
          \/ timers'[t].pc # "free" /\ timers'[t].room = B

\* the persisted state of room B, its timer registration, a timer of B or the
\* socket registration of a member of B changes
Touched(B) ==
  \/ store'[B] # store[B]
  \/ intervals'[B] # intervals[B]
  \/ \E t \in TimerIds :
       timers[t].pc # "free" /\ timers[t].room = B /\ timers'[t] # timers[t]
  \/ /\ store[B] # NoRoom
     /\ ClientIds(store[B]) \cap sockets' # ClientIds(store[B]) \cap sockets

\* C25: a step of an operation on room A (join, leave, toggle-spatial, a
\* timer callback, teardown) leaves every other room B as it was: B's
\* persisted state, B's timer registration and timers, and the socket
\* registrations of B's members.
C25_RoomIsolation ==
  [][\A B \in RoomIds : Touched(B) => ActsOn(B)]_vars

\* ============ SpecTeardown: the songs and the last client of the song
\* RoomManager (part_002, lines 653-842).  The sync timer of the room
\* (startSyncBroadcast) only reads and emits, and is left out.

MaxTeardownOps == 3

\* the ids that uploadSong draws: song_<Date.now()>_<random>
UploadIds == {"s1", "s2"}

\* a room that earlier joins and uploads left in the store
TeardownRooms ==
  {updateClientPositions(
     [WithSongs(initRoomSong, lib) EXCEPT !.clients = members]) :
       lib \in SUBSET SongIds,
       members \in
         {<<[id |-> "c1", username |-> "alice", pos |-> Slot(0, 0)]>>,
          <<[id |-> "c1", username |-> "alice", pos |-> Slot(0, 0)],
            [id |-> "c2", username |-> "bob", pos |-> Slot(0, 0)]>>}}

InitTeardown ==
  \E room \in TeardownRooms :
    /\ store = [NoRooms EXCEPT !["r1"] = room]
    /\ sockets = ClientIds(room)
    /\ intervals = [r \in RoomIds |-> 0]
    /\ timers = [t \in TimerIds |-> NoTimer]
    /\ proc = [p \in Conns |-> Idle]
    /\ pipe = <<>>
    /\ micro = <<>>
    /\ now = Epoch
    /\ ops = MaxTeardownOps
    /\ lastSpatial = [r \in RoomIds |-> NoPayload]
    /\ writer = [r \in RoomIds |-> "none"]
    /\ tornDown = [r \in RoomIds |-> FALSE]
    /\ spatialOff = [r \in RoomIds |-> FALSE]
    /\ resumed = [r \in RoomIds |-> NoResume]
    /\ joined = [p \in Conns |-> <<>>]
    /\ lastCommand = [r \in RoomIds |-> NoCommand]
    /\ inbox = [p \in Conns |-> {}]
    /\ hlsStreams = [r \in RoomIds |-> NoStream]
    /\ closed = {}
    /\ probe = NoProbe
    /\ ntp = NoNtp
    /\ hlsOutputDir = room.songs

\* uploadSong(roomId, audioUrl) up to its getRoom; songId is the id it draws
uploadSong(p, r, songId) ==
  /\ songId \notin hlsOutputDir \cup SongDirs(store)
  /\ CallAs(p, "up_got", r, "alice", "uploadSong", Some(songId))
  /\ Submit(Op(p), 1)
  /\ UNCHANGED <<v0, store, sockets, intervals, timers, now, lastSpatial,
                 hist, ext>>

\* uploadSong throws Room not found
uploadSongThrow(p) ==
  /\ Running(Op(p))
  /\ proc[p].pc = "up_got"
  /\ proc[p].loc = NoRoom
  /\ Return(p)
  /\ Finish
  /\ UNCHANGED <<v0, store, sockets, intervals, timers, now, ops, lastSpatial,
                 hist, ext>>

\* _convertToHLS: fs.mkdir of the song's directory, the transcoder starts
convertToHLS(p) ==
  /\ Running(Op(p))
  /\ proc[p].pc = "up_got"
  /\ proc[p].loc # NoRoom
  /\ hlsOutputDir' = hlsOutputDir \cup {proc[p].song[1]}
  /\ proc' = [proc EXCEPT ![p].pc = "up_hls"]
  /\ Finish
  /\ UNCHANGED <<v0, store, sockets, intervals, timers, now, ops, lastSpatial,
                 hist, inbox, hlsStreams, probe, ntp, closed>>

\* the transcoder fails: uploadSong throws Failed to process audio file
convertToHLSError(p) ==
  /\ Turn
  /\ proc[p].pc = "up_hls"
  /\ Return(p)
  /\ UNCHANGED <<v0, store, sockets, intervals, timers, pipe, micro, now, ops,
                 lastSpatial, hist, ext>>

\* the transcoder ends: the song enters the song list of the room object that
\* uploadSong read, saveRoom
convertToHLSEnd(p) ==
  LET r == proc[p].room
      room == [proc[p].loc EXCEPT !.songs = @ \cup {proc[p].song[1]}]
  IN /\ proc[p].pc = "up_hls"
     /\ Write(r, room, p, tornDown[r], spatialOff[r], NoResume)
     /\ proc' = [proc EXCEPT ![p].pc = "up_saved", ![p].loc = room]
     /\ Submit(Op(p), 1)
     /\ UNCHANGED <<v0, sockets, intervals, timers, now, ops, lastSpatial>>

uploadSongReturn(p) ==
  /\ Running(Op(p))
  /\ proc[p].pc = "up_saved"
  /\ Return(p)
  /\ Finish
  /\ UNCHANGED <<v0, store, sockets, intervals, timers, now, ops, lastSpatial,
                 hist, ext>>

\* removeSong(roomId, songId) up to its getRoom
removeSong(p, r, songId) ==
  /\ CallAs(p, "rs_got", r, "alice", "removeSong", Some(songId))
  /\ Submit(Op(p), 1)
  /\ UNCHANGED <<v0, store, sockets, intervals, timers, now, lastSpatial,
                 hist, ext>>

\* removeSong throws Room not found or Song not found
removeSongThrow(p) ==
  /\ Running(Op(p))
  /\ proc[p].pc = "rs_got"
  /\ IF proc[p].loc = NoRoom THEN TRUE
     ELSE proc[p].song[1] \notin proc[p].loc.songs
  /\ Return(p)
  /\ Finish
  /\ UNCHANGED <<v0, store, sockets, intervals, timers, now, ops, lastSpatial,
                 hist, ext>>

\* lines 731-738 of removeSong on the room object
removeSongBody(room, songId) ==
  IF room.currentSong = Some(songId)
  THEN [room EXCEPT !.currentSong = Null,
                    !.isPlaying = FALSE,
                    !.songElapsedTime = 0,
                    !.songStartTime = Null,
                    !.playbackStartTime = Null,
                    !.hlsUrl = Null]
  ELSE room

\* _cleanupHLS(songId): fs.rm of the song's directory
cleanupHLS(dirs, songId) == dirs \ {songId}

\* removeSong: the current song is reset, _cleanupHLS
removeSongCleanup(p) ==
  /\ Running(Op(p))
  /\ proc[p].pc = "rs_got"
  /\ proc[p].loc # NoRoom
  /\ proc[p].song[1] \in proc[p].loc.songs
  /\ hlsOutputDir' = cleanupHLS(hlsOutputDir, proc[p].song[1])
  /\ proc' = [proc EXCEPT ![p].pc = "rs_cleaned",
                          ![p].loc = removeSongBody(@, proc[p].song[1])]
  /\ Finish
  /\ UNCHANGED <<v0, store, sockets, intervals, timers, now, ops, lastSpatial,
                 hist, inbox, hlsStreams, probe, ntp, closed>>

\* removeSong: the song leaves the song list, saveRoom
removeSongSave(p) ==
  LET r == proc[p].room
      room == [proc[p].loc EXCEPT !.songs = @ \ {proc[p].song[1]}]
  IN /\ proc[p].pc = "rs_cleaned"
     /\ Write(r, room, p, tornDown[r], spatialOff[r], NoResume)
     /\ proc' = [proc EXCEPT ![p].pc = "rs_saved", ![p].loc = room]
     /\ Submit(Op(p), 1)
     /\ UNCHANGED <<v0, sockets, intervals, timers, now, ops, lastSpatial>>

removeSongReturn(p) ==
  /\ Running(Op(p))
  /\ proc[p].pc = "rs_saved"
  /\ Return(p)
  /\ Finish
  /\ UNCHANGED <<v0, store, sockets, intervals, timers, now, ops, lastSpatial,
                 hist, ext>>

\* removeClient({roomId, clientId}) of the song RoomManager up to its getRoom
removeClientSong(p, r) ==
  /\ Call(p, "rc_got", r, "alice", FALSE, Null, Null, Null)
  /\ Submit(Op(p), 1)
  /\ UNCHANGED <<v0, store, sockets, intervals, timers, now, lastSpatial,
                 hist, ext>>

removeClientSongAbsent(p) ==
  /\ Running(Op(p))
  /\ proc[p].pc = "rc_got"
  /\ proc[p].loc = NoRoom
  /\ Return(p)
  /\ Finish
  /\ UNCHANGED <<v0, store, sockets, intervals, timers, now, ops, lastSpatial,
                 hist, ext>>

\* the room is now empty: the intervals are cleared, redis.del
removeClientSongLast(p) ==
  LET r == proc[p].room
      last == proc[p].alone /\ ClientIds(proc[p].snap) = {p}
  IN /\ Running(Op(p))
     /\ proc[p].pc = "rc_got"
     /\ proc[p].loc # NoRoom
     /\ DropClient(proc[p].loc.clients, p) = <<>>
     /\ sockets' = sockets \ {p}
     /\ timers' = clearInterval(timers, intervals[r])
     /\ intervals' = [intervals EXCEPT ![r] = 0]
     /\ Write(r, NoRoom, p, last, FALSE, NoResume)
     /\ proc' = [proc EXCEPT ![p].pc = "rc_done"]
     /\ Request(Op(p), 1)
     /\ UNCHANGED <<v0, now, ops, lastSpatial>>

\* members remain: drop the caller and its socket, lay out again, saveRoom
removeClientSongLeave(p) ==
  LET r == proc[p].room
      left == DropClient(proc[p].loc.clients, p)
      room == updateClientPositions([proc[p].loc EXCEPT !.clients = left])
  IN /\ Running(Op(p))
     /\ proc[p].pc = "rc_got"
     /\ proc[p].loc # NoRoom
     /\ left # <<>>
     /\ sockets' = sockets \ {p}
     /\ Write(r, room, p, tornDown[r], spatialOff[r], NoResume)
     /\ proc' = [proc EXCEPT ![p].pc = "rc_done", ![p].loc = room]
     /\ Request(Op(p), 1)
     /\ UNCHANGED <<v0, intervals, timers, now, ops, lastSpatial>>

removeClientSongReturn(p) ==
  /\ Running(Op(p))
  /\ proc[p].pc = "rc_done"
  /\ Return(p)
  /\ Finish
  /\ UNCHANGED <<v0, store, sockets, intervals, timers, now, ops, lastSpatial,
                 hist, ext>>

NextTeardown ==
  \/ \E k \in 1..Len(pipe) : Receive(k)
  \/ Hop
  \/ \E p \in Conns, r \in RoomIds, songId \in UploadIds : uploadSong(p, r, songId)
  \/ \E p \in Conns : uploadSongThrow(p)
  \/ \E p \in Conns : convertToHLS(p)
  \/ \E p \in Conns : convertToHLSError(p)
  \/ \E p \in Conns : convertToHLSEnd(p)
  \/ \E p \in Conns : uploadSongReturn(p)
  \/ \E p \in Conns, r \in RoomIds, songId \in UploadIds : removeSong(p, r, songId)
  \/ \E p \in Conns : removeSongThrow(p)
  \/ \E p \in Conns : removeSongCleanup(p)
  \/ \E p \in Conns : removeSongSave(p)
  \/ \E p \in Conns : removeSongReturn(p)
  \/ \E p \in Conns, r \in RoomIds : removeClientSong(p, r)
  \/ \E p \in Conns : removeClientSongAbsent(p)
  \/ \E p \in Conns : removeClientSongLast(p)
  \/ \E p \in Conns : removeClientSongLeave(p)
  \/ \E p \in Conns : removeClientSongReturn(p)

SpecTeardown == InitTeardown /\ [][NextTeardown]_vars

\* ---- C29 (SpecTeardown)
\* removeClient of connection p deletes the room: it removed the last client
TearsDown(p) ==
  /\ proc[p].pc = "rc_got"
  /\ proc[p].loc # NoRoom
  /\ proc'[p].pc = "rc_done"
  /\ store'[proc[p].room] = NoRoom

\* C29: when removeClient removes the last client of a room and deletes the
\* room, the HLS files of the songs in the room's song list are released: no
\* directory of a song of the room is left on disk after the step.
C29_TeardownReleasesArtifacts ==
  [][\A p \in Conns :
       TearsDown(p) => proc[p].loc.songs \cap hlsOutputDir' = {}]_vars

\* ============ SpecSongTime: playback of one room of the song RoomManager
\* (part_002, lines 844-1006) over a clock that passes the sync buffers and
\* the length of the song

MaxSongTimeOps == 4
MaxSongClock == 6000

\* the duration that _convertToHLS read from the transcoder for each song
SongLength == 3000

\* the steps of Date.now() between two socket events
SongSteps == {ResumeBuffer, PlayBuffer + ResumeBuffer}

\* room.songs[songId].duration
songDuration(room, songId) == IF songId \in room.songs THEN SongLength ELSE 0

\* the room r1 holds the song and the member c1, whose socket is registered
InitSongTime ==
  \E room \in TeardownRooms :
    /\ room.songs = SongIds
    /\ Len(room.clients) = 1
    /\ store = [NoRooms EXCEPT !["r1"] = room]
    /\ sockets = ClientIds(room)
    /\ intervals = [r \in RoomIds |-> 0]
    /\ timers = [t \in TimerIds |-> NoTimer]
    /\ proc = [p \in Conns |-> Idle]
    /\ pipe = <<>>
    /\ micro = <<>>
    /\ now = Epoch
    /\ ops = MaxSongTimeOps
    /\ lastSpatial = [r \in RoomIds |-> NoPayload]
    /\ writer = [r \in RoomIds |-> "none"]
    /\ tornDown = [r \in RoomIds |-> FALSE]
    /\ spatialOff = [r \in RoomIds |-> FALSE]
    /\ resumed = [r \in RoomIds |-> NoResume]
    /\ joined = [p \in Conns |-> <<>>]
    /\ lastCommand = [r \in RoomIds |-> NoCommand]
    /\ inbox = [p \in Conns |-> {}]
    /\ hlsStreams = [r \in RoomIds |-> NoStream]
    /\ closed = {}
    /\ probe = NoProbe
    /\ ntp = NoNtp
    /\ hlsOutputDir = room.songs

\* Date.now() moves on by dt between two events
AdvanceSong(dt) ==
  /\ Turn
  /\ now + dt <= Epoch + MaxSongClock
  /\ now' = now + dt
  /\ UNCHANGED <<v0, store, sockets, intervals, timers, proc, pipe, micro, ops,
                 lastSpatial, hist, ext>>

NextSongTime ==
  \/ \E k \in 1..Len(pipe) : Receive(k)
  \/ Hop
  \/ \E s \in SongIds : song_command("c1", "song-play", "r1", Some(s))
  \/ \E cmd \in SongCommands \ {"song-play"} :
        song_command("c1", cmd, "r1", Null)
  \/ songCommandThrow("c1")
  \/ song_command_catch("c1")
  \/ songCommandSave("c1")
  \/ songCommandSync("c1")
  \/ song_command_broadcast("c1")
  \/ \E dt \in SongSteps : AdvanceSong(dt)

SpecSongTime == InitSongTime /\ [][NextSongTime]_vars

\* ---- C31 (SpecSongTime)
\* pauseSong of connection p saves the room
PauseSaves(p) ==
  /\ proc[p].pc = "song_got"
  /\ proc[p].cmd = "song-pause"
  /\ proc'[p].pc = "song_saved"

\* C31: the songElapsedTime that pauseSong stores is the value that
\* _calculateCurrentPlaybackTime had on the room just before the pause, so
\* that progress adds up over pause / resume cycles; a pause of a paused room
\* leaves it as it is.
C31_PauseFreezesElapsed ==
  [][\A p \in Conns :
       PauseSaves(p)
         => store'[proc[p].room].songElapsedTime
              = calculateCurrentPlaybackTime(store[proc[p].room], now)]_vars

\* ---- C32 (SpecSongTime)
\* C32: the currentTime of a playback-sync, which is the value of
\* _calculateCurrentPlaybackTime, never exceeds the duration of the song the
\* event names.
C32_PlaybackWithinDuration ==
  \A p \in Conns : \A e \in inbox[p] :
    (e.ev = "playback-sync" /\ e.data.songId # Null)
      => e.data.currentTime <= songDuration(store[e.room], e.data.songId[1])

\* ============ SpecSegments: parseM3U8Segments, getAudioDuration and
\* getSegmentForTime of the HLS RoomManager (part_002, lines 64-105), on
\* their own.  A playlist is the sequence of its lines; a line is an #EXTINF
\* tag with its duration in ms, the name of a segment file, another tag, or
\* empty.

MaxLines == 5
MaxSegmentLength == 2

PlaylistLines ==
  {[tag |-> "EXTINF", duration |-> d] : d \in 0..MaxSegmentLength}
    \cup {[tag |-> "file", duration |-> 0], [tag |-> "#", duration |-> 0],
          [tag |-> "", duration |-> 0]}

Playlists == UNION {[1..n -> PlaylistLines] : n \in 0..MaxLines}

\* lines[i + 1]?.trim() is there and does not start with #
segmentFile(lines, i) == i + 1 <= Len(lines) /\ lines[i + 1].tag = "file"

\* a loop that moves currentTime on at every #EXTINF, also when no segment
\* file follows (a faulty variant, which C33 must tell from the code)
RECURSIVE parseLoopGap(_, _, _, _)
parseLoopGap(lines, i, currentTime, segments) ==
  IF i > Len(lines) THEN segments
  ELSE IF lines[i].tag = "EXTINF"
       THEN parseLoopGap(lines, i + 1, currentTime + lines[i].duration,
              IF segmentFile(lines, i)
              THEN Append(segments,
                     [file |-> i + 1, duration |-> lines[i].duration,
                      startTime |-> currentTime,
                      endTime |-> currentTime + lines[i].duration])
              ELSE segments)
       ELSE parseLoopGap(lines, i + 1, currentTime, segments)

parseM3U8SegmentsGap(lines) == parseLoopGap(lines, 1, 0, <<>>)

\* the for loop of parseM3U8Segments from line i on
RECURSIVE parseLoop(_, _, _, _)
parseLoop(lines, i, currentTime, segments) ==
  IF i > Len(lines) THEN segments
  ELSE IF lines[i].tag = "EXTINF" /\ segmentFile(lines, i)
       THEN parseLoop(lines, i + 1, currentTime + lines[i].duration,
              Append(segments,
                [file |-> i + 1, duration |-> lines[i].duration,
                 startTime |-> currentTime,
                 endTime |-> currentTime + lines[i].duration]))
       ELSE parseLoop(lines, i + 1, currentTime, segments)

parseM3U8Segments(lines) == parseLoop(lines, 1, 0, <<>>)

\* segments.reduce((total, seg) => total + seg.duration, 0)
RECURSIVE reduceDuration(_, _)
reduceDuration(segments, n) ==
  IF n = 0 THEN 0 ELSE reduceDuration(segments, n - 1) + segments[n].duration

getAudioDuration(lines) ==
  LET segments == parseM3U8Segments(lines)
  IN reduceDuration(segments, Len(segments))

\* a playlist that is still to be parsed
InitSegments ==
  /\ store = NoRooms
  /\ sockets = {}
  /\ intervals = [r \in RoomIds |-> 0]
  /\ timers = [t \in TimerIds |-> NoTimer]
  /\ proc = [p \in Conns |-> Idle]
  /\ pipe = <<>>
  /\ micro = <<>>
  /\ now = Epoch
  /\ ops = 0
  /\ lastSpatial = [r \in RoomIds |-> NoPayload]
  /\ writer = [r \in RoomIds |-> "none"]
  /\ tornDown = [r \in RoomIds |-> FALSE]
  /\ spatialOff = [r \in RoomIds |-> FALSE]
  /\ resumed = [r \in RoomIds |-> NoResume]
  /\ joined = [p \in Conns |-> <<>>]
  /\ lastCommand = [r \in RoomIds |-> NoCommand]
  /\ inbox = [p \in Conns |-> {}]
  /\ hlsStreams = [r \in RoomIds |-> NoStream]
  /\ closed = {}
  /\ ntp = NoNtp
  /\ hlsOutputDir = {}
  /\ \E lines \in Playlists :
       probe = [lines |-> lines, parsed |-> FALSE, asked |-> Null,
                found |-> NoSegment]

\* the end of the transcoder: getAudioDuration and parseM3U8Segments of the
\* playlist, kept in hlsStreams
parseM3U8SegmentsCall ==
  /\ ~probe.parsed
  /\ probe' = [probe EXCEPT !.parsed = TRUE]
  /\ hlsStreams' = [hlsStreams EXCEPT ![PlayRoom] =
                      [segments |-> parseM3U8Segments(probe.lines),
                       duration |-> getAudioDuration(probe.lines)]]
  /\ UNCHANGED <<store, sockets, intervals, timers, proc, pipe, micro, now, ops,
                 lastSpatial, hist, v0, inbox, closed, ntp, hlsOutputDir>>

\* getSegmentForTime(roomId, elapsedTime)
getSegmentForTimeCall(elapsedTime) ==
  /\ probe.parsed
  /\ probe.asked = Null
  /\ probe' = [probe EXCEPT !.asked = Some(elapsedTime),
                 !.found = getSegmentForTime(hlsStreams, PlayRoom, elapsedTime)]
  /\ UNCHANGED <<store, sockets, intervals, timers, proc, pipe, micro, now, ops,
                 lastSpatial, hist, v0, inbox, hlsStreams, closed, ntp,
                 hlsOutputDir>>

NextSegments ==
  \/ parseM3U8SegmentsCall
  \/ \E elapsedTime \in 0..(MaxLines * MaxSegmentLength) :
        getSegmentForTimeCall(elapsedTime)

SpecSegments == InitSegments /\ [][NextSegments]_vars

\* ---- C33 (SpecSegments)
\* the segments of the table that hold the time t
Holding(segments, t) ==
  {i \in 1..Len(segments) :
     segments[i].startTime <= t /\ t < segments[i].endTime}

\* C33: the segment table that parseM3U8Segments builds is ordered and
\* contiguous: the first segment starts at 0, each segment ends where the
\* next one starts, the last one ends at the total duration; so exactly one
\* segment holds each t with 0 <= t < total and none holds a t >= total, and
\* getSegmentForTime finds that segment, or nothing.
C33_SegmentsContiguous ==
  hlsStreams[PlayRoom] # NoStream
    => LET segments == hlsStreams[PlayRoom].segments
           total == hlsStreams[PlayRoom].duration
           n == Len(segments)
       IN /\ n > 0 => segments[1].startTime = 0
          /\ \A i \in 1..n : segments[i].startTime <= segments[i].endTime
          /\ \A i \in 1..(n - 1) :
               segments[i].endTime = segments[i + 1].startTime
          /\ n > 0 => segments[n].endTime = total
          /\ n = 0 => total = 0
          /\ \A t \in 0..(MaxLines * MaxSegmentLength) :
               Cardinality(Holding(segments, t)) = IF t < total THEN 1 ELSE 0
          /\ probe.asked # Null
               => IF probe.asked[1] < total
                  THEN /\ probe.found # NoSegment
                       /\ probe.found.startTime <= probe.asked[1]
                       /\ probe.asked[1] < probe.found.endTime
                  ELSE probe.found = NoSegment

\* a playlist of two segments with a stray #EXTINF between them was parsed
\* and the segment of a time inside the second one was asked for
C33_Witness ==
  /\ hlsStreams[PlayRoom] # NoStream
  /\ Len(hlsStreams[PlayRoom].segments) = 2
  /\ \E i \in 1..Len(probe.lines) :
       probe.lines[i].tag = "EXTINF" /\ probe.lines[i].duration > 0
         /\ ~segmentFile(probe.lines, i)
  /\ probe.asked # Null
  /\ probe.found # NoSegment
  /\ probe.found.startTime > 0

\* ============ SpecLoopV0: the interval callback of startSpatialAudioLoop of
\* part_000 (lines 144-161), from the state that toggleSpatialAudio(roomId,
\* true) leaves

MaxLoopTicks == 61

\* center + (cos, sin)(step * PI / 30) * radius for the step as it is
OrbitPointV0(step) == [orbit |-> TRUE, step |-> step]

\* a room of part_000 with its members, spatial mode on
LoopRoomsV0 ==
  {[addClientBodyV0(initRoomV0, "c1", "alice") EXCEPT !.spatialEnabled = TRUE],
   [addClientBodyV0(addClientBodyV0(initRoomV0, "c1", "alice"), "c2", "bob")
      EXCEPT !.spatialEnabled = TRUE]}

\* toggleSpatialAudio(roomId, true) has saved the room; the timer of
\* startSpatialAudioLoop holds the room object and step = 0
InitLoopV0 ==
  \E room \in LoopRoomsV0 :
    /\ store = [NoRooms EXCEPT !["r1"] = room]
    /\ sockets = ClientIds(room)
    /\ intervals = [[r \in RoomIds |-> 0] EXCEPT !["r1"] = 1]
    /\ timers = [[t \in TimerIds |-> NoTimer] EXCEPT
                   ![1] = [NoTimer EXCEPT !.room = "r1", !.live = TRUE,
                                          !.pc = "idle", !.cur = room]]
    /\ proc = [p \in Conns |-> Idle]
    /\ pipe = <<>>
    /\ micro = <<>>
    /\ now = Epoch
    /\ ops = 0
    /\ lastSpatial = [r \in RoomIds |-> NoPayload]
    /\ writer = [[r \in RoomIds |-> "none"] EXCEPT !["r1"] = "c1"]
    /\ tornDown = [r \in RoomIds |-> FALSE]
    /\ spatialOff = [r \in RoomIds |-> FALSE]
    /\ resumed = [r \in RoomIds |-> NoResume]
    /\ joined = [p \in Conns |->
                   IF p \in ClientIds(room) THEN <<"r1">> ELSE <<>>]
    /\ lastCommand = [r \in RoomIds |-> NoCommand]
    /\ inbox = [p \in Conns |-> {}]
    /\ hlsStreams = [r \in RoomIds |-> NoStream]
    /\ closed = {}
    /\ probe = NoProbe
    /\ ntp = NoNtp
    /\ hlsOutputDir = {}

\* the callback fires: the source of the room object moves to the point of
\* step, broadcastSpatialUpdate emits
tickV0(t) ==
  LET room == [timers[t].cur EXCEPT
                 !.listeningSource = OrbitPointV0(timers[t].step)]
  IN /\ Turn
     /\ timers[t].live
     /\ timers[t].pc = "idle"
     /\ timers[t].count < MaxLoopTicks
     /\ timers' = [timers EXCEPT ![t].pc = "sent", ![t].cur = room,
                                 ![t].count = @ + 1]
     /\ lastSpatial' = broadcastSpatialUpdateV0(lastSpatial, timers[t].room,
                                                room, sockets)
     /\ micro' = <<[who |-> Cb(t), hops |-> 0]>>
     /\ UNCHANGED <<v0, store, sockets, intervals, proc, pipe, now, ops, hist,
                    ext>>

\* saveRoom of the room object
tickSaveV0(t) ==
  LET r == timers[t].room
  IN /\ Running(Cb(t))
     /\ timers[t].pc = "sent"
     /\ Write(r, timers[t].cur, "tick", tornDown[r], spatialOff[r], NoResume)
     /\ timers' = [timers EXCEPT ![t].pc = "saved"]
     /\ Request(Cb(t), 1)
     /\ UNCHANGED <<v0, sockets, intervals, proc, now, ops, lastSpatial>>

\* step++: the callback ends
tickEndV0(t) ==
  /\ Running(Cb(t))
  /\ timers[t].pc = "saved"
  /\ timers' = [timers EXCEPT ![t] =
                  IF @.live THEN [@ EXCEPT !.pc = "idle", !.step = @ + 1]
                  ELSE NoTimer]
  /\ Finish
  /\ UNCHANGED <<v0, store, sockets, intervals, proc, now, ops, lastSpatial,
                 hist, ext>>

NextLoopV0 ==
  \/ \E k \in 1..Len(pipe) : Receive(k)
  \/ Hop
  \/ \E t \in TimerIds : tickV0(t)
  \/ \E t \in TimerIds : tickSaveV0(t)
  \/ \E t \in TimerIds : tickEndV0(t)

SpecLoopV0 == InitLoopV0 /\ [][NextLoopV0]_vars

\* ---- C34 (SpecLoopV0)
\* C34: while the scheduler of a room runs, the step of its timer stays
\* within 0 .. StepPeriod - 1 (it wraps), and the source that a tick
\* broadcasts is the point of that step, so that the source repeats every
\* StepPeriod ticks.
C34_StepWraps ==
  \A t \in TimerIds :
    timers[t].pc # "free"
      => /\ timers[t].step \in 0..(StepPeriod - 1)
         /\ \A r \in RoomIds :
              (timers[t].room = r /\ timers[t].pc = "sent"
                 /\ lastSpatial[r] # NoPayload)
                => lastSpatial[r].source
                     = OrbitPoint((timers[t].count - 1) % StepPeriod)

\* ============ SpecSpatialSong: toggleSpatialAudio and the interval callback
\* of the song RoomManager (part_002, lines 1008-1056)

MaxSpatialSongOps == 2
SongStepPeriod == 100

\* broadCastSpatialUpdate of the song RoomManager: the snapshot it emits
broadCastSpatialUpdate(ls, r, room, socks) ==
  IF ClientIds(room) \cap socks = {} THEN ls
  ELSE [ls EXCEPT ![r] =
          [enabled |-> room.spatialEnabled,
           source |-> room.soundSource,
           members |-> IdSeq(room),
           unity |-> ~room.spatialEnabled,
           gains |-> [id \in ClientIds(room) |->
                        IF room.spatialEnabled
                        THEN calculateGainSong(
                               distance(PositionOf(room, id), RADIUS,
                                        room.soundSource, RADIUS), RADIUS)
                        ELSE 1000],
           positions |-> [id \in ClientIds(room) |-> PositionOf(room, id)],
           to |-> ClientIds(room) \cap socks]]

\* the room r1 with the member c1, as addClient left it
InitSpatialSong ==
  \E room \in TeardownRooms :
    /\ room.songs = {}
    /\ Len(room.clients) = 1
    /\ store = [NoRooms EXCEPT !["r1"] = room]
    /\ sockets = ClientIds(room)
    /\ intervals = [r \in RoomIds |-> 0]
    /\ timers = [t \in TimerIds |-> NoTimer]
    /\ proc = [p \in Conns |-> Idle]
    /\ pipe = <<>>
    /\ micro = <<>>
    /\ now = Epoch
    /\ ops = MaxSpatialSongOps
    /\ lastSpatial = [r \in RoomIds |-> NoPayload]
    /\ writer = [r \in RoomIds |-> "none"]
    /\ tornDown = [r \in RoomIds |-> FALSE]
    /\ spatialOff = [r \in RoomIds |-> FALSE]
    /\ resumed = [r \in RoomIds |-> NoResume]
    /\ joined = [p \in Conns |-> <<>>]
    /\ lastCommand = [r \in RoomIds |-> NoCommand]
    /\ inbox = [p \in Conns |-> {}]
    /\ hlsStreams = [r \in RoomIds |-> NoStream]
    /\ closed = {}
    /\ probe = NoProbe
    /\ ntp = NoNtp
    /\ hlsOutputDir = {}

\* toggleSpatialAudio(roomId, spatialEnable) up to its getRoom
toggleSpatialAudioSong(p, r, en) ==
  /\ Call(p, "stog_got", r, "alice", en, Null, Null, Null)
  /\ Submit(Op(p), 1)
  /\ UNCHANGED <<v0, store, sockets, intervals, timers, now, lastSpatial,
                 hist, ext>>

toggleSpatialAudioSongAbsent(p) ==
  /\ Running(Op(p))
  /\ proc[p].pc = "stog_got"
  /\ proc[p].loc = NoRoom
  /\ Return(p)
  /\ Finish
  /\ UNCHANGED <<v0, store, sockets, intervals, timers, now, ops, lastSpatial,
                 hist, ext>>

\* enable: the registered timer is cleared; startSpatialAudio (setInterval,
\* intervals.set).  The room object, with spatialEnabled set, is not saved.
startSpatialAudioSong(p) ==
  LET r == proc[p].room
      room == [proc[p].loc EXCEPT !.spatialEnabled = TRUE]
      cleared == clearInterval(timers, intervals[r])
      free == {t \in TimerIds : cleared[t].pc = "free"}
  IN /\ Running(Op(p))
     /\ proc[p].pc = "stog_got"
     /\ proc[p].loc # NoRoom
     /\ proc[p].enable
     /\ free # {}
     /\ LET id == CHOOSE t \in free : \A u \in free : t <= u
        IN /\ timers' = [cleared EXCEPT ![id] =
                           [NoTimer EXCEPT !.room = r, !.live = TRUE,
                                           !.pc = "idle"]]
           /\ intervals' = [intervals EXCEPT ![r] = id]
     /\ proc' = [proc EXCEPT ![p].pc = "stog_done", ![p].loc = room]
     /\ Yield(Op(p), 0)
     /\ UNCHANGED <<v0, store, sockets, now, ops, lastSpatial, hist, ext>>

\* disable: the registered timer is cleared, source to the origin, saveRoom
stopSpatialAudioSong(p) ==
  LET r == proc[p].room
      room == [proc[p].loc EXCEPT !.spatialEnabled = FALSE,
                                  !.soundSource = Origin]
  IN /\ Running(Op(p))
     /\ proc[p].pc = "stog_got"
     /\ proc[p].loc # NoRoom
     /\ ~proc[p].enable
     /\ timers' = clearInterval(timers, intervals[r])
     /\ intervals' = [intervals EXCEPT ![r] = 0]
     /\ Write(r, room, p, tornDown[r], spatialOff[r], NoResume)
     /\ proc' = [proc EXCEPT ![p].pc = "stog_saved", ![p].loc = room]
     /\ Request(Op(p), 1)
     /\ UNCHANGED <<v0, sockets, now, ops, lastSpatial>>

\* the broadCastSpatialUpdate of a toggle off
toggleSpatialAudioSongBroadcast(p) ==
  /\ Running(Op(p))
  /\ proc[p].pc = "stog_saved"
  /\ lastSpatial' = broadCastSpatialUpdate(lastSpatial, proc[p].room,
                                           proc[p].loc, sockets)
  /\ proc' = [proc EXCEPT ![p].pc = "stog_done"]
  /\ Yield(Op(p), 0)
  /\ UNCHANGED <<v0, store, sockets, intervals, timers, now, ops, hist, ext>>

toggleSpatialAudioSongReturn(p) ==
  /\ Running(Op(p))
  /\ proc[p].pc = "stog_done"
  /\ Return(p)
  /\ Finish
  /\ UNCHANGED <<v0, store, sockets, intervals, timers, now, ops, lastSpatial,
                 hist, ext>>

\* the timer fires: the callback issues getRoom
tickSong(t) ==
  /\ timers[t].live
  /\ timers[t].pc = "idle"
  /\ timers[t].count < MaxTicks
  /\ timers' = [timers EXCEPT ![t].pc = "got", ![t].cur = store[timers[t].room],
                              ![t].count = @ + 1]
  /\ Submit(Cb(t), 1)
  /\ UNCHANGED <<v0, store, sockets, intervals, proc, now, ops, lastSpatial,
                 hist, ext>>

\* the callback after its getRoom.  The room is gone or its spatialEnabled is
\* off: the callback clears its timer and the room's entry of the intervals
\* map.  Otherwise the source moves to the point of step and the room is
\* saved; the broadcast and step = (step + 1) % 100 follow the save.
tickBodySong(t) ==
  LET r == timers[t].room
      cur == timers[t].cur
  IN /\ Running(Cb(t))
     /\ timers[t].pc = "got"
     /\ IF cur = NoRoom \/ ~cur.spatialEnabled
        THEN /\ timers' = [timers EXCEPT ![t] = NoTimer]
             /\ intervals' = [intervals EXCEPT ![r] = 0]
             /\ Finish
             /\ UNCHANGED <<v0, store, sockets, proc, now, ops, lastSpatial,
                            hist, ext>>
        ELSE /\ Write(r, [cur EXCEPT !.soundSource =
                                       [orbit |-> TRUE,
                                        step |-> timers[t].step % SongStepPeriod]],
                      "tick", tornDown[r], spatialOff[r], NoResume)
             /\ timers' = [timers EXCEPT ![t].pc = "saved"]
             /\ Request(Cb(t), 1)
             /\ UNCHANGED <<v0, sockets, intervals, proc, now, ops,
                            lastSpatial>>

NextSpatialSong ==
  \/ \E k \in 1..Len(pipe) : Receive(k)
  \/ Hop
  \/ \E p \in Conns, en \in BOOLEAN : toggleSpatialAudioSong(p, "r1", en)
  \/ \E p \in Conns, en \in BOOLEAN : toggleSpatialAudioSong(p, "r2", en)
  \/ \E p \in Conns : toggleSpatialAudioSongAbsent(p)
  \/ \E p \in Conns : startSpatialAudioSong(p)
  \/ \E p \in Conns : stopSpatialAudioSong(p)
  \/ \E p \in Conns : toggleSpatialAudioSongBroadcast(p)
  \/ \E p \in Conns : toggleSpatialAudioSongReturn(p)
  \/ \E t \in TimerIds : tickSong(t)
  \/ \E t \in TimerIds : tickBodySong(t)

SpecSpatialSong == InitSpatialSong /\ [][NextSpatialSong]_vars

\* ---- C35 (SpecSpatialSong)
\* the callback of timer t, the registered scheduler of its room, goes on
\* from its getRoom
TickGoesOn(t) ==
  /\ timers[t].pc = "got"
  /\ timers[t].live
  /\ intervals[timers[t].room] = t
  /\ timers'[t] # timers[t]

\* C35: while spatial mode is enabled (the scheduler that toggle on started
\* is still the registered one, not cancelled) every tick goes on to its
\* broadcast rather than stopping the scheduler, and it writes the store only
\* when its step is a multiple of SaveEvery.
C35_TickCadence ==
  [][\A t \in TimerIds :
       TickGoesOn(t)
         => /\ timers'[t].pc # "free"
            /\ store' # store => timers[t].step % SaveEvery = 0]_vars

\* ---- C36 (Spec)
\* the step at which the callback of timer t writes the room it read
TickWrites(t) ==
  /\ timers[t].pc = "sent"
  /\ timers'[t].pc = "saved"

\* C36: a tick's write changes only the source position of the persisted
\* room: the membership, the playback fields and spatialEnabled persisted
\* after the write are those persisted just before it, also when a join, a
\* leave, a play, a pause or a toggle completed between the tick's read and
\* its write.
C36_TickWritesOnlySource ==
  [][\A t \in TimerIds :
       TickWrites(t)
         => LET r == timers[t].room
            IN IF store[r] = NoRoom THEN store'[r] = NoRoom
               ELSE /\ store'[r] # NoRoom
                    /\ [store'[r] EXCEPT !.listeningSource =
                                           store[r].listeningSource]
                         = store[r]]_vars

\* ---- C37 (Spec)
\* the timers of room r that setInterval started and no clearInterval stopped
RunningTimers(r) == {t \in TimerIds : timers[t].live /\ timers[t].room = r}

\* C37: at most one scheduler timer is running for a room, and a running
\* timer is the one registered for its room in the intervals map, so that one
\* clearInterval of the registered timer stops every tick of the room.
C37_OneRegisteredTimer ==
  \A r \in RoomIds :
    /\ Cardinality(RunningTimers(r)) <= 1
    /\ \A t \in RunningTimers(r) : intervals[r] = t

\* ---- C38 (Spec)
\* no call and no timer callback on room r is between its first and its last
\* step
NothingInFlight(r) ==
  /\ \A p \in Conns : proc[p].pc = "idle" \/ proc[p].room # r
  /\ \A t \in TimerIds : timers[t].pc \in {"free", "idle"} \/ timers[t].room # r

\* C38: when no operation and no tick on a room is in flight, the persisted
\* spatialEnabled of the room is true exactly when a timer is registered for
\* the room and running.
C38_FlagMatchesTimer ==
  \A r \in RoomIds :
    NothingInFlight(r)
      => ((store[r] # NoRoom /\ store[r].spatialEnabled)
            <=> (intervals[r] # 0 /\ timers[intervals[r]].live))

\* ============ SpecLeave: the leave-room and disconnect handlers of
\* sockets/socketHandlers.js (67-85) over removeClient of part_001, from a
\* room whose members have joined; the event loop is fair

MaxLeaveOps == 3

\* a room of part_001 with the members that joined it
LeaveRooms ==
  {addClientBody(initRoom, "c1", "alice"),
   addClientBody(addClientBody(initRoom, "c1", "alice"), "c2", "bob")}

InitLeave ==
  \E room \in LeaveRooms :
    /\ store = [NoRooms EXCEPT !["r1"] = room]
    /\ sockets = ClientIds(room)
    /\ joined = [p \in Conns |-> IF p \in ClientIds(room) THEN <<"r1">>
                                 ELSE <<>>]
    /\ intervals = [r \in RoomIds |-> 0]
    /\ timers = [t \in TimerIds |-> NoTimer]
    /\ proc = [p \in Conns |-> Idle]
    /\ pipe = <<>>
    /\ micro = <<>>
    /\ now = Epoch
    /\ ops = MaxLeaveOps
    /\ lastSpatial = [r \in RoomIds |-> NoPayload]
    /\ writer = [[r \in RoomIds |-> "none"] EXCEPT !["r1"] = "c1"]
    /\ tornDown = [r \in RoomIds |-> FALSE]
    /\ spatialOff = [r \in RoomIds |-> FALSE]
    /\ resumed = [r \in RoomIds |-> NoResume]
    /\ lastCommand = [r \in RoomIds |-> NoCommand]
    /\ inbox = [p \in Conns |-> {}]
    /\ hlsStreams = [r \in RoomIds |-> NoStream]
    /\ closed = {}
    /\ probe = NoProbe
    /\ ntp = NoNtp
    /\ hlsOutputDir = {}

\* leave-room {roomId}: removeClient up to its getRoom
leave_room_removeClient(p, r) ==
  /\ CallAs(p, "rem_got", r, "alice", "leave-room", Null)
  /\ Submit(Op(p), 1)
  /\ UNCHANGED <<v0, store, sockets, intervals, timers, now, lastSpatial,
                 hist, ext>>

\* disconnect: joinedRooms is what socket.rooms holds when the handler runs;
\* with no room the handler returns, else removeClient on getRoomId() up to
\* its getRoom
disconnect_removeClient(p, joinedRooms) ==
  /\ Turn
  /\ p \notin closed
  /\ proc[p].pc = "idle"
  /\ closed' = closed \cup {p}
  /\ joined' = [joined EXCEPT ![p] = <<>>]
  /\ IF joinedRooms = <<>>
     THEN UNCHANGED <<proc, ops, pipe, micro>>
     ELSE /\ CallAs(p, "rem_got", joinedRooms[1], "alice", "disconnect", Null)
          /\ Submit(Op(p), 1)
  /\ UNCHANGED <<lastCommand, store, sockets, intervals, timers, now,
                 lastSpatial, hist, inbox, hlsStreams, probe, ntp, hlsOutputDir>>

\* removeClient under a handler: the room is absent, the call returns
removeClientAbsentAwaited(p) ==
  /\ Running(Op(p))
  /\ proc[p].pc = "rem_got"
  /\ proc[p].loc = NoRoom
  /\ proc' = [proc EXCEPT ![p].pc = "rem_done"]
  /\ Yield(Op(p), 0)
  /\ UNCHANGED <<v0, store, sockets, intervals, timers, now, ops, lastSpatial,
                 hist, ext>>

\* the handler after removeClient: socket.leave (leave-room), getClients
leave_room_getClients(p) ==
  LET r == proc[p].room
  IN /\ Running(Op(p))
     /\ proc[p].pc \in {"del_done", "rem_done"}
     /\ joined' = [joined EXCEPT ![p] = SelectSeq(@, LAMBDA x : x # r)]
     /\ proc' = [proc EXCEPT ![p].pc = "cr_read", ![p].loc = store[r]]
     /\ Request(Op(p), 2)
     /\ UNCHANGED <<lastCommand, store, sockets, intervals, timers, now, ops,
                    lastSpatial, hist, ext>>

NextLeave ==
  \/ \E k \in 1..Len(pipe) : Receive(k)
  \/ Hop
  \/ \E p \in Conns \ closed : leave_room_removeClient(p, "r1")
  \/ \E p \in Conns : disconnect_removeClient(p, joined[p])
  \/ \E p \in Conns : disconnect_removeClient(p, <<>>)
  \/ \E p \in Conns : removeClientAbsentAwaited(p)
  \/ \E p \in Conns : removeClientLast(p)
  \/ \E p \in Conns : deleteRoom(p)
  \/ \E p \in Conns : removeClientLeave(p)
  \/ \E p \in Conns : removeClientSave(p)
  \/ \E p \in Conns : removeClientBroadcast(p)
  \/ \E p \in Conns : leave_room_getClients(p)
  \/ \E p \in Conns : create_room_update(p)

\* the event loop runs every callback that is ready
SpecLeave == InitLeave /\ [][NextLeave]_vars /\ WF_vars(NextLeave)

\* ---- C39 (SpecLeave)
\* every connection that joined the room has left it or has disconnected
AllLeft == \A p \in Conns : joined[p] = <<>>

\* C39: once every connection that joined a room has left or disconnected,
\* in any order and also concurrently, the persisted room is eventually
\* deleted and stays absent.
C39_EmptyRoomDeleted == AllLeft ~> [](store["r1"] = NoRoom)

\* ---- C40 (Spec)
\* the client ids that are members of some persisted room
PersistedMembers ==
  UNION {IF store[r] = NoRoom THEN {} ELSE ClientIds(store[r]) : r \in RoomIds}

\* C40: whenever no call and no timer callback is in flight, the sockets map
\* holds exactly the client ids that are members of some persisted room.
C40_RegistryMatchesMembers ==
  (\A r \in RoomIds : NothingInFlight(r)) => sockets = PersistedMembers

====
